---- MODULE Spec2Model ----
(***************************************************************************)
(* Digital Output (breaker) control of the energy monitoring backend:      *)
(* the command queue (app.DigitalOutputCommands), the status cache         *)
(* (app.DigitalOutputStatus), the worker of backend/do_worker.py with its  *)
(* execution engine, dispatcher and auto-enforcement loop, and the device  *)
(* helpers of backend/utils/pac3220_do.py.                                 *)
(***************************************************************************)
EXTENDS Integers, Sequences, FiniteSets, TLC

\* ------------------------------------------------------------------ bounds
\* Rows the command table may hold.
MaxCmds == 2
\* Calls of the store (db_helper) that raise before the store recovers.
MaxDbFail == 1

\* ------------------------------------------------------- program constants
DEFAULT_MAX_RETRIES == 3
RETRY_DELAY_SECONDS == 1
DUPLICATE_WINDOW_SECONDS == 5
\* run_worker_loop(poll_interval_seconds = 5)
PollInterval == 5
\* process_pending_commands(20)
BatchSize == 20

\* --------------------------------------------------------- device registry
\* app.Analyzers: analyzer 1 is a field device with breaker control enabled,
\* analyzer 2 is registered under the loopback address, analyzer 3 has no
\* IP address, analyzer 5 is a second field device without breaker control.
\* These belong to the first account. Analyzers 6 and 7 are field devices
\* with breaker control of a further account, when the store holds one.
Analyzers == {1, 2, 3, 5, 6, 7}
NoHost == ""
IPAddress(a) ==
    CASE a = 1 -> "192.168.10.2" [] a = 2 -> "127.0.0.1" [] a = 5 -> "192.168.10.3"
      [] a = 6 -> "192.168.10.4" [] a = 7 -> "192.168.10.5"
      [] OTHER -> NoHost

\* Values the enqueue paths hand to app.sp_ControlDigitalOutput.
\* A variant that lets RESET through to the write phase; C26 tells it from
\* the code.
KnownCommands_with_reset == {"ON", "OFF", "TOGGLE", "RESET"}

KnownCommands == {"ON", "OFF", "TOGGLE"}
\* "RESET" stands for any command word the worker does not know.
Commands == KnownCommands \cup {"RESET"}

\* Python's None where the code holds an Optional[int] (a state, a read-back).
None == 0 - 1
NoEvent == "none"
Bit == {0, 1}

VARIABLES
    cmds,     \* app.DigitalOutputCommands, in RequestedAt order
    cache,    \* app.DigitalOutputStatus.State per analyzer (None: no row)
    phys,     \* the physical output DO 0.0 of each device
    alloc,    \* app.Users.AllocatedKWh of the account
    used,     \* app.Users.UsedKWh of the account
    dbFails,  \* store calls that have raised so far
    env,      \* os.getenv: UNIT_TEST, DRY_RUN
    pc,       \* position of the worker in run_worker_loop
    batch,    \* rows fetched by process_pending_commands, not yet executed
    count,    \* `processed` of the running dispatch cycle
    todo,     \* analyzers the running enforcement cycle has still to visit
    ex,       \* locals of the running / last _execute_command call
    batch_size, \* the argument of process_pending_commands
    resp,     \* the last call of an enqueue entry point and what it returned
    regs,     \* the registers handed to ModbusClient.decode_float
    decoded,  \* what decode_float returned for them
    others,   \* the further active accounts of app.Users, with their analyzers
    enf       \* which store calls of the running enforcement cycle raised

\* What the worker loop never touches: the argument it passes to
\* process_pending_commands, the records of calls made outside it and the
\* further accounts.
given == <<batch_size, resp, regs, decoded, others>>
\* What the execution of commands never touches.
aux == <<given, enf>>

vars == <<cmds, cache, phys, alloc, used, dbFails, env, pc, batch, count, todo, ex, aux>>

\* The further accounts that own analyzer a.
Owners(a) ==
    {u \in 1..Len(others) : \E k \in 1..Len(others[u].aids) : others[u].aids[k] = a}

\* ISNULL(BreakerEnabled, 0) = 1: analyzer 1, and the analyzers of the
\* further accounts.
BreakerEnabled(a) == a = 1 \/ Owners(a) # {}

\* ---------------------------------------------------------------- helpers
Min(a, b) == IF a < b THEN a ELSE b

\* Outcomes of one call of the store (db_helper): it returns, or it raises
\* (a transient failure: MaxDbFail calls raise at most).
DbOk == BOOLEAN

\* The enforcement cycle before it has made a store call: users and aids are
\* whether the users query and the analyzers query of each account returned,
\* a the analyzer visited last and okCheck, okInsert whether the duplicate
\* query and the insert of its _enqueue_do call returned.
NoEnf == [users |-> TRUE, aids |-> <<>>, a |-> 0, okCheck |-> TRUE, okInsert |-> TRUE]

Fails(flags) == Cardinality({i \in DOMAIN flags : ~flags[i]})
StoreCalls(flags) ==
    /\ dbFails + Fails(flags) <= MaxDbFail
    /\ dbFails' = dbFails + Fails(flags)

\* Recent tells whether RequestedAt >= DATEADD(SECOND, -window, GETUTCDATE()),
\* the test of the duplicate window. A wait of at least the window puts every
\* row requested before it outside the window; a shorter wait alone puts no
\* row outside it.
Elapse(q, d) ==
    IF d >= DUPLICATE_WINDOW_SECONDS
    THEN [i \in DOMAIN q |-> [q[i] EXCEPT !.Recent = FALSE]]
    ELSE q

\* A variant of encode_do_value without the byte masks; C32 tells it from
\* the code.
encode_do_value_unmasked(output_id, action) == (output_id * 256) + action

\* encode_do_value(output_id, action)
encode_do_value(output_id, action) == ((output_id % 256) * 256) + (action % 256)

\* ------------------------------------------------------------ queue store
\* A row as app.sp_ControlDigitalOutput inserts it: ExecutionResult PENDING.
\* Source and Reason are the tokens of Notes ("source=..;reason=.."; free
\* notes of a request count as the reason of a manual command). Malformed
\* marks a row with a field that int() cannot convert. IoCycles is the
\* history of the row: the number of dispatch cycles in which the worker
\* issued device operations for it.
InsertRow(a, coil, command, retries, source, reason, malformed) ==
    [AnalyzerID |-> a, CoilAddress |-> coil, Command |-> command, MaxRetries |-> retries,
     Source |-> source, Reason |-> reason, Malformed |-> malformed, Recent |-> TRUE,
     ExecutionResult |-> "PENDING", ErrorMessage |-> <<>>, IoCycles |-> 0]

\* The row of a request for coil 0 without notes.
NewRow(a, command, retries, source, malformed) ==
    InsertRow(a, 0, command, retries, source, "", malformed)

\* app.sp_UpdateDigitalOutputResult: writes the result of one row.
sp_UpdateDigitalOutputResult(q, id, result, err) ==
    [q EXCEPT ![id].ExecutionResult = result, ![id].ErrorMessage = err]

\* A variant of _update_result that drops a FAILED result; C6 tells it from
\* the code.
_update_result_success_only(q, id, result, err, ok) ==
    IF ok /\ result = "SUCCESS" THEN [q EXCEPT ![id].ExecutionResult = result, ![id].ErrorMessage = err]
    ELSE q

\* _update_result: a failure of the call is swallowed and the row is left.
_update_result(q, id, result, err, ok) ==
    IF ok THEN sp_UpdateDigitalOutputResult(q, id, result, err) ELSE q

\* The execution e of a command has returned to process_pending_commands:
\* when it issued device operations, the dispatch cycle is noted in the
\* history of the row.
NoteCycle(q, e) ==
    IF e.writes + e.fallbacks + e.reads > 0 THEN [q EXCEPT ![e.id].IoCycles = @ + 1] ELSE q

\* _get_pending_commands: SELECT TOP (limit) ... WHERE ExecutionResult =
\* 'PENDING' ORDER BY RequestedAt ASC, as the CommandIDs of the rows.
SelectPending(q) == SelectSeq([i \in 1..Len(q) |-> i], LAMBDA i : q[i].ExecutionResult = "PENDING")

\* A variant of _get_pending_commands without the WHERE clause; C5 tells it
\* from the code.
_get_pending_commands_any_result(q, limit) ==
    SubSeq([i \in 1..Len(q) |-> i], 1, Min(limit, Len(q)))

\* A variant of _get_pending_commands that fetches one row less; C17 tells
\* it from the code.
_get_pending_commands_one_less(q, limit) ==
    SubSeq(SelectPending(q), 1, Min(limit - 1, Len(SelectPending(q))))

\* A variant of _get_pending_commands without TOP (limit); C20 tells it from
\* the code.
_get_pending_commands_unbounded(q, limit) ==
    SelectPending(q)

_get_pending_commands(q, limit) ==
    SubSeq(SelectPending(q), 1, Min(limit, Len(SelectPending(q))))

\* The variant of _record_do_event defined first below inserts the status row
\* when there is none; C38 tells it from the code.
\* _record_do_event, the status part: UPDATE app.DigitalOutputStatus SET
\* State = new_state WHERE AnalyzerID = ? (no row is inserted); a failure of
\* the call is swallowed.
_record_do_event_upsert(c, a, new_state, ok) ==
    IF ok THEN [c EXCEPT ![a] = new_state] ELSE c

_record_do_event(c, a, new_state, ok) ==
    IF ok /\ c[a] # None THEN [c EXCEPT ![a] = new_state] ELSE c

\* The event type _record_do_event inserts into ops.Events.
EventType(success, ok) ==
    IF ~ok THEN NoEvent ELSE IF success THEN "do_control" ELSE "do_control_failed"

\* ------------------------------------------------------- execution engine
\* int(cmd.get("MaxRetries") or DEFAULT_MAX_RETRIES)
max_retries_of(MaxRetries) ==
    IF MaxRetries = 0 THEN DEFAULT_MAX_RETRIES ELSE MaxRetries

\* The test-mode shortcut of the write loop and of the read-back.
TestShortcut(host) == env.UNIT_TEST \/ host \in {"127.0.0.1", "localhost"}

\* target_state_bool as 0/1: ON, OFF, or for TOGGLE the negation of the
\* cached state (`cur`, None when there is no row; ok = FALSE when the query
\* raised), defaulting to ON. The variant before it defaults to OFF; C27
\* tells it from the code.
target_state_toggle_off(command, cur, ok) ==
    CASE command = "ON" -> 1
      [] command = "OFF" -> 0
      [] OTHER -> IF ok /\ cur # None THEN 1 - cur ELSE 0

target_state(command, cur, ok) ==
    CASE command = "ON" -> 1
      [] command = "OFF" -> 0
      [] OTHER -> IF ok /\ cur # None THEN 1 - cur ELSE 1

\* A variant of the idempotence check that never skips; C4 tells it from the
\* code.
AlreadyInState_never(cur, ok, desired_int) == FALSE

\* The idempotence check: the status query succeeded, found a row and the
\* row's state is the desired one.
AlreadyInState(cur, ok, desired_int) == ok /\ cur # None /\ cur = desired_int

\* Variants of the loop bound: one attempt too many, and no retry at all; C7
\* and C8 tell them from the code.
MoreAttempts_inclusive(attempt, max_retries) == attempt <= max_retries
MoreAttempts_never(attempt, max_retries) == FALSE

\* Whether the retry loop runs another iteration after a failed attempt.
MoreAttempts(attempt, max_retries) == attempt < max_retries

\* A variant of the retry delay that grows with the attempt; C33 tells it
\* from the code.
RetryDelay_growing(attempt) == RETRY_DELAY_SECONDS * attempt

\* await asyncio.sleep(RETRY_DELAY_SECONDS) after the failed attempt.
RetryDelay(attempt) == RETRY_DELAY_SECONDS

\* Variants of the finalization; C1, C9 and C10 tell them from the code: one
\* that trusts the acknowledgement whatever was read back, one that reports
\* a write failure without the captured error and one that reports it under
\* a code of its own.
FinalOutcome_ack_only(success, read_back_state, desired_int, last_error) ==
    IF success /\ read_back_state # None
    THEN [result |-> "SUCCESS", err |-> <<>>, new_state |-> read_back_state, ok |-> TRUE]
    ELSE IF success
    THEN [result |-> "FAILED", err |-> <<"readback_missing">>, new_state |-> desired_int, ok |-> FALSE]
    ELSE [result |-> "FAILED",
          err |-> IF last_error # <<>> THEN last_error ELSE <<"unknown_error">>,
          new_state |-> desired_int, ok |-> FALSE]

FinalOutcome_no_error(success, read_back_state, desired_int, last_error) ==
    IF success /\ read_back_state # None /\ read_back_state = desired_int
    THEN [result |-> "SUCCESS", err |-> <<>>, new_state |-> read_back_state, ok |-> TRUE]
    ELSE IF success /\ read_back_state # None
    THEN [result |-> "FAILED", err |-> <<"readback_mismatch">>, new_state |-> desired_int, ok |-> FALSE]
    ELSE IF success
    THEN [result |-> "FAILED", err |-> <<"readback_missing">>, new_state |-> desired_int, ok |-> FALSE]
    ELSE [result |-> "FAILED", err |-> <<"unknown_error">>, new_state |-> desired_int, ok |-> FALSE]

FinalOutcome_write_failed(success, read_back_state, desired_int, last_error) ==
    IF success /\ read_back_state # None /\ read_back_state = desired_int
    THEN [result |-> "SUCCESS", err |-> <<>>, new_state |-> read_back_state, ok |-> TRUE]
    ELSE IF success /\ read_back_state # None
    THEN [result |-> "FAILED", err |-> <<"readback_mismatch">>, new_state |-> desired_int, ok |-> FALSE]
    ELSE IF success
    THEN [result |-> "FAILED", err |-> <<"readback_missing">>, new_state |-> desired_int, ok |-> FALSE]
    ELSE [result |-> "FAILED", err |-> <<"write_failed">>, new_state |-> desired_int, ok |-> FALSE]

\* "Finalize result based on verification": the result, the error message,
\* the state recorded in the status cache and the success flag of the event.
FinalOutcome(success, read_back_state, desired_int, last_error) ==
    IF success /\ read_back_state # None /\ read_back_state = desired_int
    THEN [result |-> "SUCCESS", err |-> <<>>, new_state |-> read_back_state, ok |-> TRUE]
    ELSE IF success /\ read_back_state # None /\ read_back_state # desired_int
    THEN [result |-> "FAILED", err |-> <<"readback_mismatch">>, new_state |-> desired_int, ok |-> FALSE]
    ELSE IF success /\ read_back_state = None
    THEN [result |-> "FAILED", err |-> <<"readback_missing">>, new_state |-> desired_int, ok |-> FALSE]
    ELSE [result |-> "FAILED",
          err |-> IF last_error # <<>> THEN last_error ELSE <<"unknown_error">>,
          new_state |-> desired_int, ok |-> FALSE]

\* The locals of _execute_command at its entry, with the record of what the
\* call has done so far: writes, fallbacks and reads count the device
\* operations attempted (FC06 writes, FC05 writes, status reads), wacks and
\* facks those of the writes the device acknowledged, out is the outcome of
\* the latest FC06 attempt, cached the status row at entry, checked whether
\* the idempotence query returned, issued the arguments of the
\* _update_result call and stored whether that call reached the store, word
\* the command word write_do encoded for the latest FC06 write and unclosed
\* the number of device connections the call opened and did not close();
\* fout is the outcome of the FC05 write and rout the outcomes of the
\* status reads; delays lists the seconds of the retry delays and updates
\* counts the calls of _update_result for the command; prev is the command
\* executed before it in the same dispatch cycle (0: none).
EnterEx(id, row, cur) ==
    [id |-> id, analyzer_id |-> row.AnalyzerID, host |-> IPAddress(row.AnalyzerID),
     command |-> row.Command, max_retries |-> max_retries_of(row.MaxRetries),
     desired |-> None, cached |-> cur, checked |-> FALSE, attempt |-> 0,
     success |-> FALSE, last_error |-> <<>>, read_back_state |-> None,
     writes |-> 0, wacks |-> 0, out |-> "", fallbacks |-> 0, facks |-> 0,
     reads |-> 0, sleeps |-> 0, word |-> None, unclosed |-> 0, fout |-> "", rout |-> <<>>, delays |-> <<>>, updates |-> 0,
     skipped |-> FALSE, issued |-> <<>>, stored |-> FALSE, event |-> NoEvent,
     raised |-> FALSE, done |-> FALSE, prev |-> 0]

NoEx == [EnterEx(0, NewRow(3, "ON", 0, "manual", FALSE), None) EXCEPT !.done = TRUE]

\* A variant that abandons the batch before its last command; C21 tells it
\* from the code.
AfterCmd_stop(rest) == IF Len(rest) <= 1 THEN "sleep" ELSE "exec"

\* A variant that enters the write phase for the next command without
\* starting its execution; C22 tells it from the code.
AfterCmd_overlap(rest) == IF rest = <<>> THEN "sleep" ELSE "write"

\* What the worker does after a command of the batch.
AfterCmd(rest) == IF rest = <<>> THEN "sleep" ELSE "exec"

\* No call of an enqueue entry point recorded; decode_float not called.
NoResp == [call |-> "none"]
NotDecoded == [state |-> "not called", bits |-> <<>>]

\* ---------------------------------------------------------------- actions
Init ==
    /\ cmds = <<>>
    /\ phys \in [Analyzers -> Bit]
    /\ cache \in [Analyzers -> Bit \cup {None}]
    /\ \A a \in Analyzers : cache[a] \in {None, phys[a]}
    /\ \A a \in Analyzers : phys[a] = 0
    /\ \A a \in Analyzers \ {1} : cache[a] = 0
    /\ alloc = 100
    /\ used = 100
    /\ dbFails = 0
    /\ env \in [UNIT_TEST : BOOLEAN, DRY_RUN : BOOLEAN]
    /\ ~(env.UNIT_TEST /\ env.DRY_RUN)
    /\ pc = IF env.DRY_RUN THEN "dry" ELSE "enforce"
    /\ batch = <<>>
    /\ count = 0
    /\ todo = <<>>
    /\ ex = NoEx
    /\ batch_size = BatchSize
    /\ resp = NoResp
    /\ regs = <<>>
    /\ decoded = NotDecoded
    /\ others = <<>>
    /\ enf = NoEnf

\* Positions of the worker right before it reads the store (the users query,
\* the duplicate check, the fetch of the batch; the dry-run wait). What other
\* processes do to the store while the worker is elsewhere touches nothing
\* the worker reads or writes there, so it is taken to happen at the next of
\* these positions.
Observing == {"enforce", "enforce_each", "dispatch", "dry"}

\* The requests of the model: for the field device every command word with
\* the default retries, a negative and a single retry and one malformed row;
\* one command for the loopback device and one for the device without
\* address.
Requests ==
    {[a |-> 1, command |-> c, retries |-> 0, malformed |-> FALSE] : c \in Commands}
    \cup {[a |-> 1, command |-> "ON", retries |-> -1, malformed |-> FALSE],
          [a |-> 1, command |-> "OFF", retries |-> 1, malformed |-> FALSE],
          [a |-> 1, command |-> "ON", retries |-> 0, malformed |-> TRUE],
          [a |-> 2, command |-> "ON", retries |-> 0, malformed |-> FALSE],
          [a |-> 3, command |-> "OFF", retries |-> 0, malformed |-> FALSE]}

\* control_digital_output, admin_do_enqueue, admin_do_control and the other
\* callers of app.sp_ControlDigitalOutput outside the worker: one PENDING row
\* is appended.
ExternalEnqueue ==
    /\ pc \in Observing
    /\ Len(cmds) < MaxCmds
    /\ \E req \in Requests :
          cmds' = Append(cmds, NewRow(req.a, req.command, req.retries, "manual", req.malformed))
    /\ UNCHANGED <<cache, phys, alloc, used, dbFails, env, pc, batch, count, todo, ex>>
    /\ UNCHANGED aux

\* process_pending_commands up to the loop: the batch is fetched; a failing
\* query raises into run_worker_loop, which counts the cycle as empty.
Fetch ==
    /\ pc = "dispatch"
    /\ \E ok \in DbOk :
          /\ StoreCalls(<<ok>>)
          /\ batch' = IF ok THEN _get_pending_commands(cmds, batch_size) ELSE <<>>
          /\ pc' = AfterCmd(batch')
    /\ count' = 0
    /\ enf' = NoEnf
    /\ UNCHANGED <<cmds, cache, phys, alloc, used, env, todo, ex>>
    /\ UNCHANGED given

\* _execute_command raises while converting the row; process_pending_commands
\* marks the command FAILED and goes on with the batch.
ExecRaises ==
    /\ pc = "exec" /\ batch # <<>>
    /\ cmds[Head(batch)].Malformed
    /\ \E ok \in DbOk :
          /\ StoreCalls(<<ok>>)
          /\ cmds' = _update_result(cmds, Head(batch), "FAILED", <<"unexpected">>, ok)
          /\ ex' = [EnterEx(Head(batch), cmds[Head(batch)], cache[cmds[Head(batch)].AnalyzerID]) EXCEPT !.prev = ex.id,
                       !.raised = TRUE, !.issued = <<"FAILED", <<"unexpected">>>>,
                       !.updates = 1, !.stored = ok, !.done = TRUE]
    /\ batch' = Tail(batch)
    /\ pc' = AfterCmd(batch')
    /\ UNCHANGED <<cache, phys, alloc, used, env, todo, count>>
    /\ UNCHANGED aux

\* A variant of the missing-host path that raises after its update, so that
\* process_pending_commands issues a second one; C35 tells it from the code.
ExecMissingHost_raise ==
    /\ pc = "exec" /\ batch # <<>>
    /\ ~cmds[Head(batch)].Malformed
    /\ IPAddress(cmds[Head(batch)].AnalyzerID) = NoHost
    /\ \E ok \in DbOk :
          /\ StoreCalls(<<ok>>)
          /\ cmds' = _update_result(cmds, Head(batch), "FAILED", <<"unexpected">>, ok)
          /\ ex' = [EnterEx(Head(batch), cmds[Head(batch)], cache[cmds[Head(batch)].AnalyzerID]) EXCEPT !.prev = ex.id,
                       !.raised = TRUE, !.issued = <<"FAILED", <<"unexpected">>>>,
                       !.updates = 2, !.stored = ok, !.done = TRUE]
    /\ batch' = Tail(batch)
    /\ count' = count
    /\ pc' = AfterCmd(batch')
    /\ UNCHANGED <<cache, phys, alloc, used, env, todo>>
    /\ UNCHANGED aux

\* if not host: FAILED missing_analyzer_ip.
ExecMissingHost ==
    /\ pc = "exec" /\ batch # <<>>
    /\ ~cmds[Head(batch)].Malformed
    /\ IPAddress(cmds[Head(batch)].AnalyzerID) = NoHost
    /\ \E ok \in DbOk :
          /\ StoreCalls(<<ok>>)
          /\ cmds' = _update_result(cmds, Head(batch), "FAILED", <<"missing_analyzer_ip">>, ok)
          /\ ex' = [EnterEx(Head(batch), cmds[Head(batch)], cache[cmds[Head(batch)].AnalyzerID]) EXCEPT !.prev = ex.id,
                       !.issued = <<"FAILED", <<"missing_analyzer_ip">>>>,
                       !.updates = 1, !.stored = ok, !.done = TRUE]
    /\ batch' = Tail(batch)
    /\ count' = count + 1
    /\ pc' = AfterCmd(batch')
    /\ UNCHANGED <<cache, phys, alloc, used, env, todo>>
    /\ UNCHANGED aux

\* Unknown command: fail fast.
ExecUnknownCommand ==
    /\ pc = "exec" /\ batch # <<>>
    /\ ~cmds[Head(batch)].Malformed
    /\ IPAddress(cmds[Head(batch)].AnalyzerID) # NoHost
    /\ cmds[Head(batch)].Command \notin KnownCommands
    /\ \E ok \in DbOk :
          /\ StoreCalls(<<ok>>)
          /\ cmds' = _update_result(cmds, Head(batch), "FAILED",
                                    <<"unknown_command", cmds[Head(batch)].Command>>, ok)
          /\ ex' = [EnterEx(Head(batch), cmds[Head(batch)], cache[cmds[Head(batch)].AnalyzerID]) EXCEPT !.prev = ex.id,
                       !.issued = <<"FAILED", <<"unknown_command", cmds[Head(batch)].Command>>>>,
                       !.updates = 1, !.stored = ok, !.done = TRUE]
    /\ batch' = Tail(batch)
    /\ count' = count + 1
    /\ pc' = AfterCmd(batch')
    /\ UNCHANGED <<cache, phys, alloc, used, env, todo>>
    /\ UNCHANGED aux

\* _execute_command from its entry to the write loop: the desired state is
\* resolved (okT: the TOGGLE status query), the idempotence check is made
\* (okI: its status query) and either the command is skipped as already in
\* state (okU, okR: the result update and the status update) or the write
\* phase is entered.
ExecStart ==
    /\ pc = "exec" /\ batch # <<>>
    /\ ~cmds[Head(batch)].Malformed
    /\ IPAddress(cmds[Head(batch)].AnalyzerID) # NoHost
    /\ cmds[Head(batch)].Command \in KnownCommands
    /\ LET id == Head(batch)
           e0 == [EnterEx(id, cmds[id], cache[cmds[id].AnalyzerID]) EXCEPT !.prev = ex.id]
           a == e0.analyzer_id
       IN \E okT, okI, okU, okR \in DbOk :
            LET desired == target_state(e0.command, cache[a], okT)
                skip == AlreadyInState(cache[a], okI, desired)
                e1 == [e0 EXCEPT !.desired = desired, !.checked = okI]
            IN /\ (e0.command # "TOGGLE") => okT
               /\ ~skip => (okU /\ okR)
               /\ StoreCalls(<<okT, okI, okU, okR>>)
               /\ IF skip
                  THEN /\ cmds' = _update_result(cmds, id, "SUCCESS", <<>>, okU)
                       /\ cache' = _record_do_event(cache, a, desired, okR)
                       /\ ex' = [e1 EXCEPT !.skipped = TRUE, !.issued = <<"SUCCESS", <<>>>>,
                                           !.updates = @ + 1, !.stored = okU, !.event = EventType(TRUE, okR),
                                           !.done = TRUE]
                       /\ batch' = Tail(batch)
                       /\ count' = count + 1
                       /\ pc' = AfterCmd(batch')
                  ELSE /\ ex' = [e1 EXCEPT !.attempt = 1]
                       /\ pc' = IF 1 <= e1.max_retries THEN "write" ELSE "fallback"
                       /\ UNCHANGED <<cmds, cache, batch, count>>
    /\ UNCHANGED <<phys, alloc, used, env, todo>>
    /\ UNCHANGED aux

\* Results of a device write: acknowledged, answered with an error (or not
\* answered), not connected, or an exception of the client.
WriteOutcomes == {"ack", "error", "connect_failed", "raise"}
\* Results of a device read: a value, no value (not connected, error
\* response, no bits), or an exception of the client.
ReadOutcomes == {"value", "none", "raise"}

\* A variant of write_do that takes any response for an acknowledgement; C28
\* tells it from the code.
write_do_any_response(outcome) == outcome \in {"ack", "error"}

\* write_do: False when connect() fails, else bool(resp and not resp.isError()).
write_do(outcome) == outcome = "ack"

\* The output after the device acknowledged a command word or a coil value:
\* it switches to the commanded state unless it ignores the command.
DeviceAfterWrite(cur, value) == {cur, IF value # 0 THEN 1 ELSE 0}

\* The error the retry loop captures for a failed attempt.
AttemptError(outcome, attempt) ==
    IF outcome = "raise" THEN <<"attempt_error", attempt>> ELSE <<"attempt_failed", attempt>>

\* One iteration of `for attempt in range(1, max_retries + 1)`.
PrimaryWrite ==
    /\ pc = "write"
    /\ IF TestShortcut(ex.host)
       THEN /\ ex' = [ex EXCEPT !.success = TRUE]
            /\ pc' = "readback"
            /\ UNCHANGED <<phys, cmds>>
       ELSE \E out \in WriteOutcomes :
              /\ IF out # "raise" /\ write_do(out)
                 THEN /\ phys' \in {[phys EXCEPT ![ex.analyzer_id] = v] :
                                      v \in DeviceAfterWrite(phys[ex.analyzer_id],
                                                             encode_do_value(0, ex.desired))}
                      /\ ex' = [ex EXCEPT !.success = TRUE, !.writes = @ + 1, !.wacks = @ + 1,
                                          !.out = out, !.word = encode_do_value(0, ex.desired)]
                      /\ pc' = "readback"
                      /\ UNCHANGED cmds
                 ELSE /\ UNCHANGED phys
                      /\ IF MoreAttempts(ex.attempt, ex.max_retries)
                         THEN /\ ex' = [ex EXCEPT !.last_error = AttemptError(out, ex.attempt),
                                                  !.writes = @ + 1, !.out = out,
                                                  !.word = encode_do_value(0, ex.desired),
                                                  !.attempt = @ + 1, !.sleeps = @ + 1,
                                                  !.delays = Append(@, RetryDelay(ex.attempt))]
                              /\ cmds' = Elapse(cmds, RetryDelay(ex.attempt))
                              /\ pc' = "write"
                         ELSE /\ ex' = [ex EXCEPT !.last_error = AttemptError(out, ex.attempt),
                                                  !.writes = @ + 1, !.out = out,
                                                  !.word = encode_do_value(0, ex.desired)]
                              /\ pc' = "fallback"
                              /\ UNCHANGED cmds
    /\ UNCHANGED <<cache, alloc, used, dbFails, env, batch, count, todo>>
    /\ UNCHANGED aux

\* "Fallback: try FC05 coil write when FC06 fails". client.close() follows
\* the write outside any finally: when write_coil raises it is not reached.
FallbackWrite ==
    /\ pc = "fallback"
    /\ \E out \in WriteOutcomes :
          IF out = "ack"
          THEN /\ phys' \in {[phys EXCEPT ![ex.analyzer_id] = v] :
                               v \in DeviceAfterWrite(phys[ex.analyzer_id], ex.desired)}
               /\ ex' = [ex EXCEPT !.success = TRUE, !.last_error = <<>>,
                                   !.fallbacks = @ + 1, !.facks = @ + 1, !.fout = out]
               /\ pc' = "readback"
          ELSE /\ ex' = [ex EXCEPT !.fallbacks = @ + 1, !.fout = out,
                                   !.unclosed = @ + (IF out = "raise" THEN 1 ELSE 0)]
               /\ pc' = "final"
               /\ UNCHANGED phys
    /\ UNCHANGED <<cmds, cache, alloc, used, dbFails, env, batch, count, todo>>
    /\ UNCHANGED aux

\* `if success:` the read-back: read_do_0 (discrete input), and when it
\* yields no value read_coils; an exception of read_do_0 leaves no value.
\* read_do_0 closes its connection in a finally; the close() after
\* read_coils is not reached when read_coils raises.
ReadBack ==
    /\ pc = "readback"
    /\ IF TestShortcut(ex.host)
       THEN ex' = [ex EXCEPT !.read_back_state = ex.desired]
       ELSE \E r1, r2 \in ReadOutcomes :
              /\ r1 # "none" => r2 = "none"
              /\ ex' = [ex EXCEPT
                    !.read_back_state = IF r1 = "value" \/ (r1 = "none" /\ r2 = "value")
                                        THEN phys[ex.analyzer_id] ELSE None,
                    !.reads = @ + (IF r1 = "none" THEN 2 ELSE 1),
                    !.rout = IF r1 = "none" THEN <<r1, r2>> ELSE <<r1>>,
                    !.unclosed = @ + (IF r1 = "none" /\ r2 = "raise" THEN 1 ELSE 0)]
    /\ pc' = "final"
    /\ UNCHANGED <<cmds, cache, phys, alloc, used, dbFails, env, batch, count, todo>>
    /\ UNCHANGED aux

\* "Finalize result based on verification": _update_result (okU) and
\* _record_do_event (okR), then back to the loop of process_pending_commands.
Finalize ==
    /\ pc = "final"
    /\ LET o == FinalOutcome(ex.success, ex.read_back_state, ex.desired, ex.last_error)
       IN \E okU, okR \in DbOk :
            /\ StoreCalls(<<okU, okR>>)
            /\ cmds' = NoteCycle(_update_result(cmds, ex.id, o.result, o.err, okU), ex)
            /\ cache' = _record_do_event(cache, ex.analyzer_id, o.new_state, okR)
            /\ ex' = [ex EXCEPT !.issued = <<o.result, o.err>>, !.updates = @ + 1,
                                !.stored = okU,
                                !.event = EventType(o.ok, okR), !.done = TRUE]
    /\ batch' = Tail(batch)
    /\ count' = count + 1
    /\ pc' = AfterCmd(batch')
    /\ UNCHANGED <<phys, alloc, used, env, todo>>
    /\ UNCHANGED aux

\* ------------------------------------------------------- enforcement loop
\* pct of _enforce_auto_limit_restore, rounded down to a whole percent. The
\* variant before it takes an account without a positive allocation as at 0
\* percent whatever it used; C40 tells it from the code.
pct_of_unallocated_zero(al, us) == IF al > 0 THEN (us * 100) \div al ELSE 0

pct_of(al, us) == IF al > 0 THEN (us * 100) \div al ELSE IF us > 0 THEN 100 ELSE 0

\* A variant of the threshold that cuts off only above 100 percent; C13
\* tells it from the code.
EnforceCommand_above(pct) == IF pct > 100 THEN "OFF" ELSE "ON"

\* The command the enforcement loop enqueues at a usage of pct percent.
EnforceCommand(pct) == IF pct >= 100 THEN "OFF" ELSE "ON"
EnforceSource(pct) == IF pct >= 100 THEN "auto_limit" ELSE "auto_restore"

\* A variant of _should_enqueue without the window; C14 tells it from the
\* code.
_should_enqueue_no_window(q, a, coil, command, ok) ==
    IF ok
    THEN ~\E i \in 1..Len(q) :
            /\ q[i].AnalyzerID = a /\ q[i].CoilAddress = coil /\ q[i].Command = command
            /\ q[i].ExecutionResult = "PENDING"
    ELSE TRUE

\* _should_enqueue: no PENDING row for the same analyzer, coil and command was
\* requested within the window; True when the query fails.
_should_enqueue(q, a, coil, command, ok) ==
    IF ok
    THEN ~\E i \in 1..Len(q) :
            /\ q[i].AnalyzerID = a /\ q[i].CoilAddress = coil /\ q[i].Command = command
            /\ q[i].ExecutionResult = "PENDING"
            /\ q[i].Recent
    ELSE TRUE

\* The table has room for MaxCmds commands and one more per further account.
Room(q) == Len(q) < MaxCmds + Len(others)

\* What _enqueue_do returns: True when the row was inserted, False when
\* _should_enqueue refused or the insert raised (okInsert = FALSE, or the
\* table is full).
enqueue_do_returns(q, a, coil, command, okCheck, okInsert) ==
    _should_enqueue(q, a, coil, command, okCheck) /\ okInsert /\ Room(q)

\* A variant of _enqueue_do that fails the PENDING commands of the device
\* as superseded when it inserts; C29 tells it from the code.
_enqueue_do_supersede(q, a, coil, command, source, reason, okCheck, okInsert) ==
    IF enqueue_do_returns(q, a, coil, command, okCheck, okInsert)
    THEN Append([i \in DOMAIN q |->
                    IF q[i].AnalyzerID = a /\ q[i].ExecutionResult = "PENDING"
                    THEN [q[i] EXCEPT !.ExecutionResult = "FAILED",
                                      !.ErrorMessage = <<"superseded">>]
                    ELSE q[i]],
                InsertRow(a, coil, command, DEFAULT_MAX_RETRIES, source, reason, FALSE))
    ELSE q

\* _enqueue_do, the table after the call.
_enqueue_do(q, a, coil, command, source, reason, okCheck, okInsert) ==
    IF enqueue_do_returns(q, a, coil, command, okCheck, okInsert)
    THEN Append(q, InsertRow(a, coil, command, DEFAULT_MAX_RETRIES, source, reason, FALSE))
    ELSE q

\* BreakerCoilAddress of an analyzer (ISNULL(.., 0)).
Coil(a) == 0

\* The reason the enforcement loop gives.
EnforceReason(pct) == IF pct >= 100 THEN "Units exceeded 100%" ELSE "Recharge completed"

\* The analyzers of the first account, as the query of the loop returns
\* them.
ActiveAnalyzers == <<1, 2, 3, 5>>

\* The analyzers query for account u of the users query: 0 is the first
\* account (alloc, used), u > 0 the further account others[u].
AccountAnalyzers(u) == IF u = 0 THEN ActiveAnalyzers ELSE others[u].aids

\* pct of the account that owns analyzer a.
AccountPct(a) ==
    IF Owners(a) = {} THEN pct_of(alloc, used)
    ELSE LET u == CHOOSE v \in Owners(a) : TRUE
         IN pct_of(others[u].AllocatedKWh, others[u].UsedKWh)

\* The analyzers the loop does not `continue` over: breaker control enabled
\* (the coil address of every analyzer of the model is 0, inside 0..9999).
Enforced(as) == SelectSeq(as, BreakerEnabled)

\* A variant of the per-user handler that ends the loop over the accounts
\* when one account raises; C39 tells it from the code.
AccountVisit_break(u, ok, rest) ==
    IF ok THEN Enforced(AccountAnalyzers(u)) \o rest ELSE <<>>

\* The analyzers the loop visits for account u, followed by those of the
\* accounts after it (rest): an account whose analyzers query raises
\* (ok = FALSE) is left by the `continue` of the per-user handler.
AccountVisit(u, ok, rest) ==
    (IF ok THEN Enforced(AccountAnalyzers(u)) ELSE <<>>) \o rest

\* The analyzers the loop visits from account u on.
RECURSIVE VisitedFrom(_, _)
VisitedFrom(u, oks) ==
    IF u > Len(others) THEN <<>>
    ELSE AccountVisit(u, oks[u + 1], VisitedFrom(u + 1, oks))

\* _enforce_auto_limit_restore up to the loops over the analyzers: the users
\* query (okUsers; when it raises nothing is enqueued) and the analyzers
\* query of each account (okAids).
EnforceBegin ==
    /\ pc = "enforce"
    /\ \E okUsers \in DbOk : \E okAids \in [1..(1 + Len(others)) -> DbOk] :
          /\ ~okUsers => \A k \in DOMAIN okAids : okAids[k]
          /\ StoreCalls(<<okUsers>> \o okAids)
          /\ todo' = IF okUsers THEN VisitedFrom(0, okAids) ELSE <<>>
          /\ enf' = [NoEnf EXCEPT !.users = okUsers, !.aids = okAids]
          /\ pc' = IF todo' = <<>> THEN "dispatch" ELSE "enforce_each"
    /\ UNCHANGED <<cmds, cache, phys, alloc, used, env, batch, count, ex>>
    /\ UNCHANGED given

\* One iteration of `for a in aids`.
EnforceEach ==
    /\ pc = "enforce_each"
    /\ LET a == Head(todo)
           pct == AccountPct(a)
       IN \E okCheck, okInsert \in DbOk :
            /\ ~okInsert => _should_enqueue(cmds, a, Coil(a), EnforceCommand(pct), okCheck)
            /\ StoreCalls(<<okCheck, okInsert>>)
            /\ cmds' = _enqueue_do(cmds, a, Coil(a), EnforceCommand(pct), EnforceSource(pct),
                                   EnforceReason(pct), okCheck, okInsert)
            /\ enf' = [enf EXCEPT !.a = a, !.okCheck = okCheck, !.okInsert = okInsert]
    /\ todo' = Tail(todo)
    /\ pc' = IF todo' = <<>> THEN "dispatch" ELSE "enforce_each"
    /\ UNCHANGED <<cache, phys, alloc, used, env, batch, count, ex>>
    /\ UNCHANGED given

\* ------------------------------------------------------------- worker loop
\* A variant that always sleeps the poll interval; C30 tells it from the
\* code.
SleepSeconds_always_poll(n) == PollInterval

\* await asyncio.sleep(poll_interval_seconds if count == 0 else 1)
SleepSeconds(n) == IF n = 0 THEN PollInterval ELSE 1

Sleep ==
    /\ pc = "sleep"
    /\ cmds' = Elapse(cmds, SleepSeconds(count))
    /\ pc' = "enforce"
    /\ ex' = NoEx
    /\ count' = 0
    /\ UNCHANGED <<cache, phys, alloc, used, dbFails, env, batch, todo>>
    /\ UNCHANGED aux

\* A variant of the dry-run wait that falls into the worker loop after one
\* wait; C31 tells it from the code.
DrySleep_once ==
    /\ pc = "dry"
    /\ cmds' = Elapse(cmds, PollInterval)
    /\ pc' = "enforce"
    /\ UNCHANGED <<cache, phys, alloc, used, dbFails, env, batch, count, todo, ex>>
    /\ UNCHANGED aux

\* `if dry: while True: await asyncio.sleep(poll_interval_seconds)`
DrySleep ==
    /\ pc = "dry"
    /\ cmds' = Elapse(cmds, PollInterval)
    /\ UNCHANGED <<cache, phys, alloc, used, dbFails, env, pc, batch, count, todo, ex>>
    /\ UNCHANGED aux

\* Time passes (device I/O, waits of other processes): the oldest row still
\* inside the duplicate window leaves it.
WindowPasses ==
    /\ pc \in Observing
    /\ \E i \in 1..Len(cmds) :
          /\ cmds[i].Recent
          /\ \A j \in 1..(i - 1) : ~cmds[j].Recent
          /\ cmds' = [cmds EXCEPT ![i].Recent = FALSE]
    /\ UNCHANGED <<cache, phys, alloc, used, dbFails, env, pc, batch, count, todo, ex>>
    /\ UNCHANGED aux

\* update_user with allocated_kwh: the allocation of the account is raised
\* above its usage. The worker reads the allocation in the users query of
\* the enforcement loop only, so the update is taken to happen right before
\* that query.
RaiseAllocation ==
    /\ pc = "enforce"
    /\ alloc <= used
    /\ alloc' = used + 1
    /\ UNCHANGED <<cmds, cache, phys, used, dbFails, env, pc, batch, count, todo, ex>>
    /\ UNCHANGED aux

Worker ==
    \/ EnforceBegin \/ EnforceEach \/ Fetch
    \/ ExecRaises \/ ExecMissingHost \/ ExecUnknownCommand \/ ExecStart
    \/ PrimaryWrite \/ FallbackWrite \/ ReadBack \/ Finalize
    \/ Sleep \/ DrySleep

Next == Worker \/ ExternalEnqueue \/ WindowPasses \/ RaiseAllocation

Spec == Init /\ [][Next]_vars

\* The dispatch loop under the scheduling of run_worker_loop: `while True`
\* with nothing that blocks for ever, so the worker always takes its next
\* step. The allocation stays at the usage, where every enforcement cycle
\* asks for a command.
LiveNext == Worker \/ ExternalEnqueue \/ WindowPasses
LiveSpec == Init /\ [][LiveNext]_vars /\ WF_vars(Worker)

\* The worker started while the breaker of the field device is ON or OFF,
\* with a status row that agrees with the device or without one, and a
\* store whose calls all go through.
EnforceInit ==
    /\ cmds = <<>>
    /\ phys \in [Analyzers -> Bit]
    /\ cache \in [Analyzers -> Bit \cup {None}]
    /\ cache[1] \in {None, phys[1]}
    /\ \A a \in Analyzers \ {1} : phys[a] = 0 /\ cache[a] = 0
    /\ alloc = 100
    /\ used = 100
    /\ dbFails = MaxDbFail
    /\ env \in [UNIT_TEST : BOOLEAN, DRY_RUN : BOOLEAN]
    /\ ~(env.UNIT_TEST /\ env.DRY_RUN)
    /\ pc = IF env.DRY_RUN THEN "dry" ELSE "enforce"
    /\ batch = <<>>
    /\ count = 0
    /\ todo = <<>>
    /\ ex = NoEx
    /\ batch_size = BatchSize
    /\ resp = NoResp
    /\ regs = <<>>
    /\ decoded = NotDecoded
    /\ others = <<>>
    /\ enf = NoEnf

\* The account stays at 100 percent of its allocation and the worker keeps
\* running its loop.
EnforceSpec == EnforceInit /\ [][LiveNext]_vars /\ WF_vars(Worker)

\* ------------------------------------------------------ enqueue entry points
\* The owner of an analyzer as admin_do_enqueue queries it: the analyzers of
\* the registry belong to the account with Role USER, analyzer 4 belongs to
\* an administrator account.
AdminAnalyzer == 4
OwnerRole(a) == IF a = AdminAnalyzer THEN "ADMIN" ELSE "USER"

\* Tables the entry points are called on: empty, or one manual row of any
\* device, coil and command, PENDING or executed, inside the window or not.
QueueRows ==
    {[InsertRow(a, coil, c, DEFAULT_MAX_RETRIES, "manual", "", FALSE)
         EXCEPT !.ExecutionResult = r, !.Recent = rec] :
        a \in {1, 2}, coil \in {0, 1}, c \in {"ON", "OFF"},
        r \in {"PENDING", "SUCCESS"}, rec \in BOOLEAN}
EnqueueQueues == {<<>>} \cup {<<r>> : r \in QueueRows}

EnqueueInit ==
    /\ cmds \in EnqueueQueues
    /\ phys = [a \in Analyzers |-> 0]
    /\ cache = [a \in Analyzers |-> 0]
    /\ alloc = 100
    /\ used = 100
    /\ dbFails = 0
    /\ env = [UNIT_TEST |-> FALSE, DRY_RUN |-> FALSE]
    /\ pc = "enforce"
    /\ batch = <<>>
    /\ count = 0
    /\ todo = <<>>
    /\ ex = NoEx
    /\ batch_size = BatchSize
    /\ resp = NoResp
    /\ regs = <<>>
    /\ decoded = NotDecoded
    /\ others = <<>>
    /\ enf = NoEnf

\* A call of _enqueue_do with its arguments, the table before and after it
\* and the value it returned (okCheck: the duplicate query, okInsert: the
\* stored procedure, called only when _should_enqueue allows).
EnqueueDo ==
    /\ \E a \in {1, 2}, coil \in {0, 1}, command \in {"ON", "OFF"},
          source \in {"auto_limit", "auto_restore"}, okCheck, okInsert \in DbOk :
          /\ ~okInsert => _should_enqueue(cmds, a, coil, command, okCheck)
          /\ StoreCalls(<<okCheck, okInsert>>)
          /\ cmds' = _enqueue_do(cmds, a, coil, command, source, "r", okCheck, okInsert)
          /\ resp' = [call |-> "_enqueue_do", analyzer_id |-> a, coil_address |-> coil,
                      command |-> command, source |-> source, reason |-> "r",
                      okCheck |-> okCheck, okInsert |-> okInsert,
                      before |-> cmds, after |-> cmds',
                      returned |-> enqueue_do_returns(cmds, a, coil, command, okCheck, okInsert)]
    /\ UNCHANGED <<cache, phys, alloc, used, env, pc, batch, count, todo, ex>>
    /\ UNCHANGED <<batch_size, regs, decoded, others, enf>>

\* A variant of admin_do_enqueue without the upper bound of the coil range;
\* C18 tells it from the code.
admin_do_enqueue_no_upper(role, a, coil, command, okOwner, okInsert) ==
    IF role # "Admin" THEN [status |-> 403, detail |-> "Admin access required"]
    ELSE IF command \notin KnownCommands THEN [status |-> 400, detail |-> "Invalid command"]
    ELSE IF ~(0 <= coil) THEN [status |-> 400, detail |-> "Invalid coil address"]
    ELSE IF okOwner /\ OwnerRole(a) # "USER"
    THEN [status |-> 400, detail |-> "Analyzer must belong to a user account"]
    ELSE IF ~okInsert THEN [status |-> 500, detail |-> "Failed to enqueue control command"]
    ELSE [status |-> 200, detail |-> "success"]

\* admin_do_enqueue, its reply: the HTTP status and the detail (okOwner: the
\* owner query, whose failure is swallowed; okInsert: the stored procedure).
admin_do_enqueue(role, a, coil, command, okOwner, okInsert) ==
    IF role # "Admin" THEN [status |-> 403, detail |-> "Admin access required"]
    ELSE IF command \notin KnownCommands THEN [status |-> 400, detail |-> "Invalid command"]
    ELSE IF ~(0 <= coil /\ coil <= 9999) THEN [status |-> 400, detail |-> "Invalid coil address"]
    ELSE IF okOwner /\ OwnerRole(a) # "USER"
    THEN [status |-> 400, detail |-> "Analyzer must belong to a user account"]
    ELSE IF ~okInsert THEN [status |-> 500, detail |-> "Failed to enqueue control command"]
    ELSE [status |-> 200, detail |-> "success"]

\* The requests of the admin endpoint in the model: an administrator and
\* another role, an analyzer of the user account and one of an administrator
\* account, coil addresses at and beyond both ends of the range, valid
\* command words, a lower-case one and an unknown one.
AdminRequests ==
    [role : {"Admin", "User"}, analyzer_id : {1, AdminAnalyzer},
     coil_address : {0 - 1, 0, 9999, 10000}, command : {"ON", "TOGGLE", "on", "RESET"}]

\* POST /do/enqueue for a request out of `requests`: the checks, the owner
\* query, the insert through app.sp_ControlDigitalOutput with MaxRetries 3
\* and the audit event through ops.sp_LogAuditEvent (okAudit; its failure is
\* swallowed). A store call that is not reached cannot fail.
AdminCall(requests) ==
    /\ pc \in Observing
    /\ Len(cmds) < MaxCmds
    /\ \E req \in requests, okOwner, okInsert, okAudit \in DbOk :
          LET early == admin_do_enqueue(req.role, req.analyzer_id, req.coil_address,
                                        req.command, FALSE, TRUE)
              reply == admin_do_enqueue(req.role, req.analyzer_id, req.coil_address,
                                        req.command, okOwner, okInsert)
          IN /\ early.status # 200 => (okOwner /\ okInsert /\ okAudit)
             /\ reply.status = 400 => (okInsert /\ okAudit)
             /\ reply.status = 500 => okAudit
             /\ StoreCalls(<<okOwner, okInsert, okAudit>>)
             /\ cmds' = IF reply.status = 200
                        THEN Append(cmds, InsertRow(req.analyzer_id, req.coil_address,
                                                    req.command, 3, "manual", "", FALSE))
                        ELSE cmds
             /\ resp' = [call |-> "admin_do_enqueue", request |-> req,
                         okOwner |-> okOwner, okInsert |-> okInsert, okAudit |-> okAudit,
                         status |-> reply.status, detail |-> reply.detail,
                         before |-> cmds, after |-> cmds',
                         audit |-> IF reply.status = 200 /\ okAudit THEN 1 ELSE 0]
    /\ UNCHANGED <<cache, phys, alloc, used, env, pc, batch, count, todo, ex>>
    /\ UNCHANGED <<batch_size, regs, decoded, others, enf>>

AdminDoEnqueue == AdminCall(AdminRequests)

EnqueueNext == EnqueueDo \/ AdminDoEnqueue

EnqueueSpec == EnqueueInit /\ [][EnqueueNext]_vars

\* ------------------------------------------------------------ two accounts
\* The worker on a store with a second account that owns the field devices 6
\* and 7. The first account is at 100 percent; the second has a zero, a
\* negative or a positive allocation and has used nothing or 100 kWh. The only
\* commands are those of the enforcement loop.
OtherAccounts ==
    {<<[AllocatedKWh |-> al, UsedKWh |-> us, aids |-> <<6, 7>>]>> :
        al \in {0 - 50, 0, 200}, us \in {0, 100}}

AccountsInit ==
    /\ cmds = <<>>
    /\ phys = [a \in Analyzers |-> 0]
    /\ cache = [a \in Analyzers |-> 0]
    /\ alloc = 100
    /\ used = 100
    /\ dbFails = 0
    /\ env = [UNIT_TEST |-> FALSE, DRY_RUN |-> FALSE]
    /\ pc = "enforce"
    /\ batch = <<>>
    /\ count = 0
    /\ todo = <<>>
    /\ ex = NoEx
    /\ batch_size = BatchSize
    /\ resp = NoResp
    /\ regs = <<>>
    /\ decoded = NotDecoded
    /\ others \in OtherAccounts
    /\ enf = NoEnf

AccountsNext ==
    \/ EnforceBegin \/ EnforceEach \/ Fetch
    \/ ExecStart \/ PrimaryWrite \/ FallbackWrite \/ ReadBack \/ Finalize
    \/ Sleep

\* run_worker_loop is `while True` with bounded waits.
AccountsSpec == AccountsInit /\ [][AccountsNext]_vars /\ WF_vars(AccountsNext)

\* ---------------------------------------------------------- dispatch cycles
\* The dispatcher on a table that already holds commands, with a batch size
\* the table can exceed. The rows are older commands for the two field
\* devices, PENDING or executed, requested outside the duplicate window; the
\* store has had its failures.
MaxBatch == 2
MaxQueue == 3
OldRows ==
    {[NewRow(a, c, 1, "manual", FALSE) EXCEPT !.ExecutionResult = r, !.Recent = FALSE] :
        a \in {1, 5}, c \in {"ON", "OFF"}, r \in {"PENDING", "SUCCESS"}}
DispatchQueues == UNION {[1..n -> OldRows] : n \in 0..MaxQueue}

DispatchInit ==
    /\ cmds \in DispatchQueues
    /\ batch_size \in 1..MaxBatch
    /\ phys = [a \in Analyzers |-> 0]
    /\ cache = [a \in Analyzers |-> 0]
    /\ alloc = 100
    /\ used = 100
    /\ dbFails = MaxDbFail
    /\ env = [UNIT_TEST |-> FALSE, DRY_RUN |-> FALSE]
    /\ pc = "enforce"
    /\ batch = <<>>
    /\ count = 0
    /\ todo = <<>>
    /\ ex = NoEx
    /\ resp = NoResp
    /\ regs = <<>>
    /\ decoded = NotDecoded
    /\ others = <<>>
    /\ enf = NoEnf

\* Requests of an administrator for the field device that pass every check
\* of admin_do_enqueue.
ValidAdminRequests ==
    [role : {"Admin"}, analyzer_id : {1}, coil_address : {0}, command : {"ON", "OFF"}]

AdminDoEnqueueValid == AdminCall(ValidAdminRequests)

DispatchNext ==
    \/ EnforceBegin \/ EnforceEach \/ Fetch
    \/ ExecStart \/ PrimaryWrite \/ FallbackWrite \/ ReadBack \/ Finalize
    \/ Sleep \/ AdminDoEnqueueValid

DispatchSpec == DispatchInit /\ [][DispatchNext]_vars

\* ------------------------------------------------------------ decode_float
\* Registers are 16-bit words; a float is held as the two words <<high, low>>
\* of its IEEE 754 single-precision pattern.
SwapBytes(w) == (w % 256) * 256 + (w \div 256)

\* BinaryPayloadDecoder.fromRegisters(registers, byteorder, wordorder) with
\* decode_32bit_float: the two words are reversed under little word order,
\* the bytes of each word are swapped under little byte order, and the four
\* bytes are read as a big-endian float.
Float32Words(r, byteLittle, wordLittle) ==
    LET w == IF wordLittle THEN <<r[2], r[1]>> ELSE <<r[1], r[2]>>
    IN IF byteLittle THEN <<SwapBytes(w[1]), SwapBytes(w[2])>> ELSE w

\* math.isnan(val) or math.isinf(val): the exponent field (bits 30..23) is
\* all ones.
NanOrInf(f) == (f[1] \div 128) % 256 = 255

\* abs(val) > 1e9, on the magnitude bits (1e9 is 0x4E6E 0x6B28).
Absurd(f) ==
    LET high == f[1] % 32768
    IN high > 20078 \/ (high = 20078 /\ f[2] > 27432)

\* The (byteorder, wordorder) pairs in the order decode_float tries them,
\* TRUE for Endian.Little.
orders == <<<<TRUE, FALSE>>, <<FALSE, FALSE>>, <<TRUE, TRUE>>, <<FALSE, TRUE>>>>

NoValue == [state |-> "none", bits |-> <<>>]

\* The loop over the orders: the first decoding that is neither NaN,
\* infinite nor absurd, else None.
FirstValid(r) ==
    LET valid == {i \in DOMAIN orders :
                    LET f == Float32Words(r, orders[i][1], orders[i][2])
                    IN ~NanOrInf(f) /\ ~Absurd(f)}
    IN IF valid = {} THEN NoValue
       ELSE LET i == CHOOSE k \in valid : \A j \in valid : k <= j
            IN [state |-> "value", bits |-> Float32Words(r, orders[i][1], orders[i][2])]

\* A variant of decode_float that decodes the first two of any longer list;
\* C16 tells it from the code.
decode_float_leading_words(registers) ==
    IF Len(registers) < 2 THEN NoValue
    ELSE IF registers = <<65535, 65535>> THEN NoValue
    ELSE FirstValid(registers)

\* ModbusClient.decode_float(registers)
decode_float(registers) ==
    IF Len(registers) # 2 THEN NoValue
    ELSE IF registers = <<65535, 65535>> THEN NoValue
    ELSE FirstValid(registers)

\* Register lists handed to decode_float: up to MaxWords words out of
\* 0x0000, 0xFFFF, the halves of 1.0 (0x3F80) in both byte orders, of
\* infinity (0x7F80) and of 1e9 (0x4E6E).
MaxWords == 3
SampleWords == {0, 65535, 16256, 32831, 32640, 20078}
RegisterLists == UNION {[1..n -> SampleWords] : n \in 0..MaxWords}

DecodeInit ==
    /\ regs \in RegisterLists
    /\ decoded = NotDecoded
    /\ others = <<>>
    /\ enf = NoEnf
    /\ cmds = <<>>
    /\ phys = [a \in Analyzers |-> 0]
    /\ cache = [a \in Analyzers |-> 0]
    /\ alloc = 100
    /\ used = 100
    /\ dbFails = 0
    /\ env = [UNIT_TEST |-> FALSE, DRY_RUN |-> FALSE]
    /\ pc = "enforce"
    /\ batch = <<>>
    /\ count = 0
    /\ todo = <<>>
    /\ ex = NoEx
    /\ batch_size = BatchSize
    /\ resp = NoResp

Decode ==
    /\ decoded = NotDecoded
    /\ decoded' = decode_float(regs)
    /\ UNCHANGED <<cmds, cache, phys, alloc, used, dbFails, env, pc, batch, count, todo, ex>>
    /\ UNCHANGED <<batch_size, resp, regs, others, enf>>

DecodeSpec == DecodeInit /\ [][Decode]_vars

\* --------------------------------------------------------- encode_do_value
\* Arguments handed to encode_do_value: the values around the byte and word
\* boundaries, of either sign.
SampleArgs == {0 - 65536, 0 - 257, 0 - 256, 0 - 255, 0 - 1, 0, 1, 2, 255, 256, 257, 511,
               512, 65535, 65536}

EncodeInit ==
    /\ regs \in [1..2 -> SampleArgs]
    /\ resp = NoResp
    /\ decoded = NotDecoded
    /\ others = <<>>
    /\ enf = NoEnf
    /\ cmds = <<>>
    /\ phys = [a \in Analyzers |-> 0]
    /\ cache = [a \in Analyzers |-> 0]
    /\ alloc = 100
    /\ used = 100
    /\ dbFails = 0
    /\ env = [UNIT_TEST |-> FALSE, DRY_RUN |-> FALSE]
    /\ pc = "enforce"
    /\ batch = <<>>
    /\ count = 0
    /\ todo = <<>>
    /\ ex = NoEx
    /\ batch_size = BatchSize

\* One call encode_do_value(output_id, action) with its result.
Encode ==
    /\ resp = NoResp
    /\ resp' = [call |-> "encode_do_value", output_id |-> regs[1], action |-> regs[2],
                word |-> encode_do_value(regs[1], regs[2])]
    /\ UNCHANGED <<cmds, cache, phys, alloc, used, dbFails, env, pc, batch, count, todo, ex>>
    /\ UNCHANGED <<batch_size, regs, decoded, others, enf>>

EncodeSpec == EncodeInit /\ [][Encode]_vars

\* ------------------------------------------------------------- properties
\* An execution of a command has returned to process_pending_commands.
Finished == ex.id # 0 /\ ex.done
\* The row of the command the worker executes or executed last.
Row == cmds[ex.id]
\* The leading token of an error message (the text before the first colon).
ReasonCode(err) == IF err = <<>> THEN "" ELSE err[1]
\* Device operations of the execution.
DeviceAcks == ex.wacks + ex.facks
DeviceIO == ex.writes + ex.fallbacks + ex.reads
Max(a, b) == IF a >= b THEN a ELSE b
\* The result the execution handed to _update_result.
Issued(result) == ex.issued # <<>> /\ ex.issued[1] = result
\* The store holds what was handed to it whenever the call went through.
Persisted == ex.stored => (Row.ExecutionResult = ex.issued[1] /\ Row.ErrorMessage = ex.issued[2])

\* C1: when a device write was acknowledged and the read-back returned a
\* state other than the desired one, the command is marked FAILED with
\* reason readback_mismatch and is not marked SUCCESS.
C1_ReadbackMismatchFails ==
    (Finished /\ DeviceAcks > 0 /\ ex.read_back_state # None
              /\ ex.read_back_state # ex.desired)
    => /\ ex.issued = <<"FAILED", <<"readback_mismatch">>>>
       /\ Row.ExecutionResult # "SUCCESS"
       /\ Persisted

C1_Witness ==
    /\ Finished /\ ex.wacks = 1 /\ ex.reads > 0
    /\ ex.read_back_state # None /\ ex.read_back_state # ex.desired
    /\ ex.stored /\ Row.ExecutionResult = "FAILED"

\* C2: a command that is not skipped by the idempotence check is
\* marked SUCCESS only if some device write for it was acknowledged and a
\* read-back performed on the device after that write returned the desired
\* state, whatever the host and the environment.
C2_SuccessNeedsDeviceReadback ==
    (Finished /\ ~ex.skipped /\ Issued("SUCCESS"))
    => (DeviceAcks > 0 /\ ex.reads > 0 /\ ex.read_back_state = ex.desired)

\* C3, stated for the case that favours it most (no test shortcut, every
\* store call succeeded, well-formed commands with the default or a positive
\* retry count): the device changing only by the worker's acknowledged
\* writes and the status cache starting equal to the device, no command is
\* marked SUCCESS while the output differs from its desired state.
C3_SuccessMeansDeviceInState ==
    (/\ Finished /\ Issued("SUCCESS") /\ ~TestShortcut(ex.host) /\ dbFails = 0
     /\ \A i \in 1..Len(cmds) : cmds[i].MaxRetries >= 0 /\ ~cmds[i].Malformed)
    => phys[ex.analyzer_id] = ex.desired

\* C4 as stated: a command whose desired state equals the cached status of
\* its device at execution time causes no device I/O and is marked SUCCESS.
C4_CachedStateSkips ==
    (Finished /\ ~ex.raised /\ ex.command \in KnownCommands
              /\ ex.cached # None /\ target_state(ex.command, ex.cached, TRUE) = ex.cached)
    => (DeviceIO = 0 /\ Issued("SUCCESS"))

\* C4 amended: a command for which the idempotence query of the engine
\* returns a cached status equal to its desired state causes no device I/O
\* and is marked SUCCESS (the query is reached only by a command with a
\* device host and a known command word, and it may fail).
C4_QueriedStateSkips ==
    (Finished /\ ex.checked /\ ex.cached # None /\ ex.desired = ex.cached)
    => /\ ex.skipped /\ DeviceIO = 0
       /\ ex.issued = <<"SUCCESS", <<>>>>
       /\ Persisted

C4_Witness ==
    /\ Finished /\ ex.checked /\ ex.cached # None /\ ex.desired = ex.cached
    /\ ex.skipped /\ ex.stored /\ Row.ExecutionResult = "SUCCESS"

\* C5: a command that is SUCCESS or FAILED keeps its result and its error
\* message in every step of the dispatch loop, of the enforcement loop and of
\* an external enqueue.
C5_TerminalIsFinal ==
    [][\A i \in 1..Len(cmds) :
          cmds[i].ExecutionResult \in {"SUCCESS", "FAILED"}
          => /\ i <= Len(cmds')
             /\ cmds'[i].ExecutionResult = cmds[i].ExecutionResult
             /\ cmds'[i].ErrorMessage = cmds[i].ErrorMessage]_vars

C5_Witness ==
    /\ Finished /\ ex.stored /\ ex.id > 1
    /\ cmds[1].ExecutionResult = "FAILED" /\ Row.ExecutionResult = "SUCCESS"
    /\ cmds[1].AnalyzerID = Row.AnalyzerID

RetryCount(row) == IF row.MaxRetries = 0 THEN 3 ELSE row.MaxRetries

\* C7 as stated: the number of primary write attempts of an execution is at
\* most the command's max-retry count.
C7_AttemptsWithinCount ==
    (ex.id # 0 /\ ~ex.raised) => ex.writes <= RetryCount(Row)

\* C7 amended: the number of primary write attempts is at most the larger of
\* 0 and the max-retry count (a negative count gives no attempt), the loop
\* stops at the first acknowledged write, and every attempt that fails,
\* a failed connect included, consumes exactly one attempt.
C7_AttemptsWithinCountOrNone ==
    (ex.id # 0 /\ ~ex.raised)
    => /\ ex.writes <= Max(0, RetryCount(Row))
       /\ ex.wacks <= 1
       /\ pc = "write" => (ex.wacks = 0 /\ ex.attempt = ex.writes + 1)
       /\ ex.wacks = 1 => ex.out = "ack"

C7_Witness ==
    /\ Finished /\ Row.MaxRetries = 0 /\ ex.writes = 3
    /\ ex.out = "connect_failed" /\ ex.wacks = 0

\* C8: the fallback coil write is attempted at most once per execution, only
\* after every primary write of the command has failed, never after a primary
\* write was acknowledged, and always before the command is declared FAILED
\* for write failure.
C8_FallbackOnceAfterPrimary ==
    ex.id # 0
    => /\ ex.fallbacks <= 1
       /\ pc = "fallback" => (ex.wacks = 0 /\ ~ex.success /\ ex.fallbacks = 0
                                /\ ex.writes = Max(0, RetryCount(Row)))
       /\ ex.fallbacks = 1 => (ex.wacks = 0 /\ ex.writes = Max(0, RetryCount(Row)))
       /\ (Finished /\ Issued("FAILED") /\ ~ex.success /\ ex.desired # None)
            => ex.fallbacks = 1

C8_Witness ==
    /\ Finished /\ ex.fallbacks = 1 /\ ex.facks = 0 /\ ex.writes = 3
    /\ Issued("FAILED") /\ ex.stored

\* C9: when every primary attempt fails and the fallback fails too, the
\* command is FAILED and the error handed to the store is the one captured on
\* the last failed attempt.
C9_LastAttemptErrorPersisted ==
    (Finished /\ ex.writes >= 1 /\ ex.wacks = 0 /\ ex.fallbacks = 1 /\ ex.facks = 0)
    => /\ ex.issued = <<"FAILED", <<(IF ex.out = "raise" THEN "attempt_error"
                                                        ELSE "attempt_failed"),
                                    ex.writes>>>>
       /\ ex.writes = RetryCount(Row)
       /\ Persisted

C9_Witness ==
    /\ Finished /\ ex.writes = 3 /\ ex.wacks = 0 /\ ex.fallbacks = 1 /\ ex.facks = 0
    /\ ex.stored /\ Row.ErrorMessage = <<"attempt_failed", 3>>

\* The reason codes the specification lists, and those the engine produces.
ListedCodes ==
    {"connect_failed", "attempt_failed", "readback_mismatch", "readback_missing",
     "unknown_command", "missing_analyzer_ip"}
ProducedCodes ==
    {"attempt_failed", "attempt_error", "unknown_error", "unexpected",
     "readback_mismatch", "readback_missing", "unknown_command", "missing_analyzer_ip"}

\* C10 as stated: every FAILED command carries a reason code among
\* connect_failed, attempt_failed, readback_mismatch, readback_missing,
\* unknown_command and missing_analyzer_ip.
C10_ListedReason ==
    \A i \in 1..Len(cmds) :
        cmds[i].ExecutionResult = "FAILED" => ReasonCode(cmds[i].ErrorMessage) \in ListedCodes

\* C10 amended: every FAILED command carries a reason code among
\* attempt_failed, attempt_error, unknown_error, unexpected,
\* readback_mismatch, readback_missing, unknown_command and
\* missing_analyzer_ip.
C10_ProducedReason ==
    \A i \in 1..Len(cmds) :
        cmds[i].ExecutionResult = "FAILED" => ReasonCode(cmds[i].ErrorMessage) \in ProducedCodes

C10_Witness ==
    /\ Finished /\ ex.stored /\ Row.ExecutionResult = "FAILED"
    /\ ReasonCode(Row.ErrorMessage) = "attempt_error"

\* C11, with every store call going through: every execution of a command,
\* whatever its outcome, has its final status in the store, has called the
\* status-cache update and has emitted one audit event, do_control on
\* success and do_control_failed on failure.
C11_EveryOutcomeRecorded ==
    (Finished /\ dbFails = 0)
    => /\ ex.stored /\ Persisted
       /\ ex.event = IF Issued("SUCCESS") THEN "do_control" ELSE "do_control_failed"

\* Rows the enforcement loop enqueued for analyzer a with the given command
\* inside the duplicate window.
RecentAuto(a, command) ==
    {i \in 1..Len(cmds) : /\ cmds[i].AnalyzerID = a /\ cmds[i].Command = command
                          /\ cmds[i].Source \in {"auto_limit", "auto_restore"}
                          /\ cmds[i].Recent}

\* C12, with every store call going through: while the account stays at
\* used = allocated, the enforcement cycles that run within 5 seconds of the
\* first OFF enqueue add no further OFF command for the breaker-enabled
\* device, also when the dispatcher has executed the first one in between.
C12_OneOffPerWindow ==
    (dbFails = 0 /\ alloc = used) => Cardinality(RecentAuto(1, "OFF")) <= 1

\* The row the enforcement loop asks for, for analyzer a at the account's
\* usage: OFF at or above the allocation, ON below it.
AutoRow(a) ==
    IF used >= alloc
    THEN InsertRow(a, Coil(a), "OFF", 3, "auto_limit", "Units exceeded 100%", FALSE)
    ELSE InsertRow(a, Coil(a), "ON", 3, "auto_restore", "Recharge completed", FALSE)

\* C13: an enforcement cycle whose queries return visits every device with
\* breaker control enabled (and a coil address in 0..9999) exactly once and
\* no other device; each visit makes one enqueue attempt, for OFF when
\* used/allocated >= 1.0 and for ON when it is below, which appends that one
\* row unless it is a duplicate or the store fails; no row of the enforcement
\* loop is for a device with breaker control disabled.
C13_OneEnqueuePerEnabledDevice ==
    [][/\ (pc = "enforce" /\ pc' # "enforce" /\ dbFails' = dbFails)
          => \A a \in Analyzers :
                Cardinality({i \in 1..Len(todo') : todo'[i] = a})
                    = IF BreakerEnabled(a) THEN 1 ELSE 0
       /\ (pc = "enforce_each" /\ todo' # todo)
          => /\ todo' = Tail(todo)
             /\ cmds' \in {cmds, Append(cmds, AutoRow(Head(todo)))}
             /\ (/\ dbFails' = dbFails /\ Len(cmds) < MaxCmds
                 /\ _should_enqueue(cmds, Head(todo), Coil(Head(todo)),
                                    AutoRow(Head(todo)).Command, TRUE))
                => cmds' # cmds
       /\ \A i \in 1..Len(cmds') :
             cmds'[i].Source \in {"auto_limit", "auto_restore"}
             => BreakerEnabled(cmds'[i].AnalyzerID)]_vars

C13_Witness ==
    /\ Len(cmds) = 2 /\ pc = "dispatch" /\ alloc > used
    /\ cmds[1] = [InsertRow(1, 0, "OFF", 3, "auto_limit", "Units exceeded 100%", FALSE)
                      EXCEPT !.ExecutionResult = cmds[1].ExecutionResult,
                             !.ErrorMessage = cmds[1].ErrorMessage,
                             !.Recent = cmds[1].Recent]
    /\ cmds[2] = InsertRow(1, 0, "ON", 3, "auto_restore", "Recharge completed", FALSE)

\* A PENDING row for the same device, coil and command requested within the
\* last 5 seconds.
Duplicate(q, a, coil, command) ==
    \E i \in 1..Len(q) :
        /\ q[i].AnalyzerID = a /\ q[i].CoilAddress = coil /\ q[i].Command = command
        /\ q[i].ExecutionResult = "PENDING" /\ q[i].Recent

\* The row _enqueue_do is to insert for the recorded call: PENDING, max
\* retries 3, notes source=<source>;reason=<reason>.
EnqueuedRow ==
    [AnalyzerID |-> resp.analyzer_id, CoilAddress |-> resp.coil_address,
     Command |-> resp.command, MaxRetries |-> 3, Source |-> resp.source,
     Reason |-> resp.reason, Malformed |-> FALSE, Recent |-> TRUE,
     ExecutionResult |-> "PENDING", ErrorMessage |-> <<>>, IoCycles |-> 0]

\* C14 as stated: _enqueue_do inserts nothing and returns false when the
\* table holds a duplicate, and otherwise inserts exactly one PENDING row
\* with max retries 3 and the notes and returns true.
C14_DuplicateOrInsert ==
    (resp.call = "_enqueue_do" /\ Len(resp.before) < MaxCmds)
    => IF Duplicate(resp.before, resp.analyzer_id, resp.coil_address, resp.command)
       THEN ~resp.returned /\ resp.after = resp.before
       ELSE resp.returned /\ resp.after = Append(resp.before, EnqueuedRow)

\* C14 amended: _enqueue_do inserts nothing and returns false when its
\* duplicate query returns a duplicate, and also when the insert fails;
\* otherwise (no duplicate, or the duplicate query failed) it inserts exactly
\* one PENDING row with max retries 3 and the notes and returns true.
C14_DuplicateOrInsertBestEffort ==
    (resp.call = "_enqueue_do" /\ Len(resp.before) < MaxCmds)
    => IF \/ (resp.okCheck /\ Duplicate(resp.before, resp.analyzer_id,
                                         resp.coil_address, resp.command))
          \/ ~resp.okInsert
       THEN ~resp.returned /\ resp.after = resp.before
       ELSE resp.returned /\ resp.after = Append(resp.before, EnqueuedRow)

C14_Witness ==
    /\ resp.call = "_enqueue_do" /\ Len(resp.before) = 1
    /\ resp.before[1].ExecutionResult = "PENDING" /\ ~resp.before[1].Recent
    /\ resp.before[1].AnalyzerID = resp.analyzer_id
    /\ resp.before[1].CoilAddress = resp.coil_address
    /\ resp.before[1].Command = resp.command
    /\ resp.okCheck /\ resp.returned /\ Len(cmds) = 2

\* C15: the command word the engine writes to the device register with an
\* FC06 write is 256 for ON and 0 for OFF, the values of the encoder for
\* (output 0, action 1) and (output 0, action 0).
C15_CommandWord ==
    (ex.id # 0 /\ ex.writes > 0)
    => ex.word = IF ex.desired = 1 THEN 256 ELSE 0

\* C16: decode_float on the two words [0x0000, 0x0000] returns 0.0, on
\* [0xFFFF, 0xFFFF] returns no value, and on any input that is not exactly
\* two words returns no value.
C16_DecodeFloatEdges ==
    decoded # NotDecoded
    => /\ regs = <<0, 0>> => decoded = [state |-> "value", bits |-> <<0, 0>>]
       /\ regs = <<65535, 65535>> => decoded = NoValue
       /\ Len(regs) # 2 => decoded = NoValue

C16_Witness ==
    regs = <<0, 0>> /\ decoded = [state |-> "value", bits |-> <<0, 0>>]

\* The recorded call of admin_do_enqueue and its request.
AdminCalled == resp.call = "admin_do_enqueue"
AdminValid ==
    /\ resp.request.role = "Admin"
    /\ resp.request.command \in {"ON", "OFF", "TOGGLE"}
    /\ resp.request.coil_address \in 0..9999
AdminInserted ==
    /\ resp.after = Append(resp.before,
                           [AnalyzerID |-> resp.request.analyzer_id,
                            CoilAddress |-> resp.request.coil_address,
                            Command |-> resp.request.command, MaxRetries |-> 3,
                            Source |-> "manual", Reason |-> "", Malformed |-> FALSE,
                            Recent |-> TRUE, ExecutionResult |-> "PENDING",
                            ErrorMessage |-> <<>>, IoCycles |-> 0])
    /\ resp.audit = 1 /\ resp.status = 200
AdminRejected(status) == resp.status = status /\ resp.after = resp.before /\ resp.audit = 0

\* C18 as stated, with every store call going through: for an Admin caller
\* with a command in {ON, OFF, TOGGLE} and a coil address in 0..9999
\* admin_do_enqueue inserts exactly one command with the request's analyzer
\* id, coil address and command, logs one audit event and returns success;
\* a non-admin caller gets 403, a command outside the set 400 and a coil
\* address outside the range 400, with nothing inserted.
C18_AdminEnqueue ==
    (AdminCalled /\ resp.okOwner /\ resp.okInsert /\ resp.okAudit)
    => /\ AdminValid => AdminInserted
       /\ resp.request.role # "Admin" => AdminRejected(403)
       /\ (resp.request.role = "Admin" /\ ~AdminValid) => AdminRejected(400)

\* C18 amended: as stated for an analyzer whose owner is found to be a user
\* account or whose owner query fails; an Admin caller with a valid command
\* and coil address is rejected with 400 and nothing is inserted when the
\* analyzer's owner is found not to be a user account; when the insert
\* fails the reply is 500 with nothing inserted, and when only the audit
\* call fails the command is inserted and success returned without an audit
\* event.
C18_AdminEnqueueUserOwned ==
    AdminCalled
    => /\ resp.request.role # "Admin" => AdminRejected(403)
       /\ (resp.request.role = "Admin" /\ ~AdminValid) => AdminRejected(400)
       /\ (AdminValid /\ resp.okOwner /\ OwnerRole(resp.request.analyzer_id) # "USER")
            => AdminRejected(400)
       /\ (AdminValid /\ (~resp.okOwner \/ OwnerRole(resp.request.analyzer_id) = "USER"))
            => IF ~resp.okInsert THEN AdminRejected(500)
               ELSE IF resp.okAudit THEN AdminInserted
               ELSE /\ resp.status = 200 /\ resp.audit = 0
                    /\ Len(resp.after) = Len(resp.before) + 1

C18_Witness ==
    /\ AdminCalled /\ AdminValid /\ AdminInserted
    /\ resp.request.analyzer_id = 1 /\ resp.request.coil_address = 9999
    /\ resp.request.command = "TOGGLE" /\ Len(cmds) = 2

\* C19: every device connection opened while a command is executed is
\* closed when its execution ends, also when the I/O call raised.
C19_ConnectionsClosed ==
    Finished => ex.unclosed = 0

\* The command the recorded call of admin_do_enqueue created, and the
\* PENDING commands requested before it.
AdminCommand == Len(resp.after)
AdminQueued ==
    /\ AdminCalled /\ resp.status = 200
    /\ cmds[AdminCommand].ExecutionResult = "PENDING"
OlderPending == {i \in 1..(AdminCommand - 1) : cmds[i].ExecutionResult = "PENDING"}
\* A step of process_pending_commands that fetches the batch.
FetchStep == pc = "dispatch" /\ pc' # "dispatch"
\* The device accepted a write of the execution and the read-back returned
\* the desired state.
DeviceAccepted == DeviceAcks > 0 /\ ex.read_back_state = ex.desired

\* C17 as stated: a valid command enqueued through the admin endpoint is in
\* the batch of every call of process_pending_commands made while it is
\* PENDING, the next call first of all, and when its device accepts the
\* write and reads back the desired state the result update issued for it
\* is SUCCESS.
C17_NextCallExecutes ==
    /\ [][(FetchStep /\ AdminQueued)
            => \E k \in 1..Len(batch') : batch'[k] = AdminCommand]_vars
    /\ [](((Finished /\ AdminCalled /\ resp.status = 200 /\ ex.id = AdminCommand)
            /\ DeviceAccepted) => Issued("SUCCESS"))

\* C17 amended: the command is in the batch of the next call of
\* process_pending_commands when fewer than batch-size PENDING commands were
\* requested before it (otherwise it waits for a later call), and when its
\* device accepts the write and reads back the desired state the result
\* update issued for it is SUCCESS.
C17_NextCallExecutesWithinBatch ==
    /\ [][(FetchStep /\ AdminQueued /\ Cardinality(OlderPending) < batch_size)
            => \E k \in 1..Len(batch') : batch'[k] = AdminCommand]_vars
    /\ [](((Finished /\ AdminCalled /\ resp.status = 200 /\ ex.id = AdminCommand)
            /\ DeviceAccepted) => (Issued("SUCCESS") /\ ex.stored /\ Persisted))

C17_Witness ==
    /\ Finished /\ AdminCalled /\ resp.status = 200 /\ ex.id = AdminCommand
    /\ ex.id = 2 /\ cmds[1].ExecutionResult = "FAILED" /\ batch_size = 2 /\ count = 2
    /\ ex.wacks = 1 /\ ex.reads > 0 /\ DeviceAccepted
    /\ Row.ExecutionResult = "SUCCESS"

\* C20: each dispatch cycle fetches only PENDING commands, at most
\* batch-size of them and the oldest ones, oldest first; the commands of a
\* batch are executed in that order, each one PENDING when its execution
\* starts, so that a command that is SUCCESS or FAILED is never selected or
\* executed again.
C20_OldestPendingFirst ==
    [][/\ \A k \in 1..Len(batch') : cmds'[batch'[k]].ExecutionResult = "PENDING"
       /\ FetchStep
          => /\ Len(batch') = Min(batch_size, Len(SelectPending(cmds)))
             /\ \A k \in 1..(Len(batch') - 1) : batch'[k] < batch'[k + 1]
             /\ \A i \in 1..Len(cmds) :
                   (cmds[i].ExecutionResult = "PENDING"
                    /\ ~\E k \in 1..Len(batch') : batch'[k] = i)
                   => \A k \in 1..Len(batch') : batch'[k] < i
       /\ (ex'.id # ex.id /\ ex'.id # 0)
          => /\ ex'.id = Head(batch)
             /\ cmds[ex'.id].ExecutionResult = "PENDING"
             /\ (ex.id # 0 => ex.id < ex'.id)]_vars

C20_Witness ==
    /\ Len(cmds) = 3 /\ batch_size = 2 /\ pc = "sleep" /\ count = 2
    /\ Finished /\ ex.id = 2
    /\ cmds[1].ExecutionResult = "FAILED" /\ cmds[2].ExecutionResult = "SUCCESS"
    /\ cmds[3].ExecutionResult = "PENDING"

\* Command i is in the batch, still to be executed.
InBatch(i) == \E k \in 1..Len(batch) : batch[k] = i

\* C21: when the execution of a command of a batch raises an unexpected
\* error, that command is marked FAILED with the reason unexpected, the
\* dispatcher goes on with the rest of the batch, every later command of
\* the batch is executed, and the worker loop reaches its next cycle.
C21_RaiseIsolated ==
    /\ [][(ex'.raised /\ ex'.id # 0 /\ ex' # ex)
            => /\ ex'.issued = <<"FAILED", <<"unexpected">>>>
               /\ ex'.stored => (/\ cmds'[ex'.id].ExecutionResult = "FAILED"
                                 /\ cmds'[ex'.id].ErrorMessage = <<"unexpected">>)
               /\ batch' = Tail(batch)
               /\ pc' = IF batch' = <<>> THEN "sleep" ELSE "exec"]_vars
    /\ \A i \in 1..MaxCmds : (Finished /\ ex.raised /\ InBatch(i)) ~> (ex.id = i)
    /\ (Finished /\ ex.raised) ~> (pc = "enforce")

C21_Witness ==
    /\ Finished /\ ex.raised /\ ex.id = 1 /\ ex.stored
    /\ cmds[1].ExecutionResult = "FAILED" /\ cmds[1].ErrorMessage = <<"unexpected">>
    /\ batch = <<2>> /\ pc = "exec"

\* Device operations and retry delays an execution record counts.
Operations(e) == e.writes + e.fallbacks + e.reads + e.sleeps

\* C22: within a dispatch cycle the execution of a command starts only after
\* the execution of the previous command has returned, and every device
\* operation and retry delay belongs to the one command in execution, the
\* head of the batch, for commands on the same device and on different
\* devices.
C22_OneCommandAtATime ==
    [][/\ (ex'.id # ex.id /\ ex'.id # 0) => (ex.done /\ ex'.id = Head(batch))
       /\ ((ex'.id = ex.id /\ Operations(ex') # Operations(ex)) \/ phys' # phys)
          => /\ ~ex.done /\ ex.id # 0 /\ ex'.id = ex.id /\ ex.id = Head(batch)
             /\ Operations(ex') > Operations(ex)
             /\ \A a \in Analyzers \ {ex.analyzer_id} : phys'[a] = phys[a]]_vars

C22_Witness ==
    /\ pc = "readback" /\ ex.id = 2 /\ ex.analyzer_id = 5 /\ ex.wacks = 1
    /\ cmds[1].AnalyzerID = 1 /\ cmds[1].ExecutionResult = "FAILED"
    /\ cmds[1].ErrorMessage = <<"readback_missing">>
    /\ batch = <<2>>

\* C23 as stated: with the one worker of the model, each command has device
\* operations issued for it in at most one dispatch cycle.
C23_OneCyclePerCommand ==
    \A i \in 1..Len(cmds) : cmds[i].IoCycles <= 1

\* An execution that reached the write phase has returned, its status
\* update reached the store and the device+coil has a status row.
WritePhaseRecorded ==
    Finished /\ ex.attempt >= 1 /\ ex.event # NoEvent /\ ex.cached # None

\* The two parts of C24: the read-back value, when one was obtained, is the
\* cached state; with no write acknowledged the cached state is as it was at
\* the entry of the execution.
ReadBackValueCached ==
    (WritePhaseRecorded /\ ex.read_back_state # None)
        => cache[ex.analyzer_id] = ex.read_back_state
UnwrittenStateKept ==
    (WritePhaseRecorded /\ DeviceAcks = 0 /\ ~ex.success)
        => cache[ex.analyzer_id] = ex.cached

\* C24 as stated: after an execution that reached the write phase, the
\* status cache of a device+coil with a status row holds the read-back
\* value whenever one was obtained, for SUCCESS and FAILED alike, and is not
\* changed when no write was acknowledged.
C24_CacheIsBestKnowledge == ReadBackValueCached /\ UnwrittenStateKept

\* C25 as stated: a device read is issued only after a write (primary or fallback) was
\* acknowledged; an execution in which a write was acknowledged has issued a
\* read-back when it returns and one in which every write failed has issued
\* none; when a write was acknowledged and neither read returned a value the
\* command ends FAILED readback_missing.
C25_ReadBackIffWritten ==
    /\ ex.reads > 0 => DeviceAcks > 0
    /\ Finished => /\ DeviceAcks > 0 => ex.reads > 0
                   /\ (DeviceAcks > 0 /\ ex.read_back_state = None)
                        => /\ ex.issued = <<"FAILED", <<"readback_missing">>>>
                           /\ ex.stored => /\ cmds[ex.id].ExecutionResult = "FAILED"
                                           /\ cmds[ex.id].ErrorMessage = <<"readback_missing">>

\* The execution that has returned found a row it could convert.
Converted == Finished /\ ~ex.raised

\* The execution has ended at once: no device operation, no attempt of the
\* retry loop, no retry delay, and the result handed to the store is
\* FAILED with the given error.
FailedAtOnce(err) ==
    /\ ex.issued = <<"FAILED", err>> /\ Persisted
    /\ DeviceIO = 0 /\ ex.attempt = 0 /\ ex.sleeps = 0 /\ ex.event = NoEvent

\* C26: a command whose analyzer has no device host is marked FAILED
\* missing_analyzer_ip, and a command with a host whose word is none of ON,
\* OFF, TOGGLE is marked FAILED unknown_command:<word>, each at once, with
\* no device operation, no attempt and no retry delay (the mark is in the
\* store whenever the result update went through).
C26_FailFast ==
    /\ []((Converted /\ IPAddress(Row.AnalyzerID) = NoHost)
             => FailedAtOnce(<<"missing_analyzer_ip">>))
    /\ []((Converted /\ IPAddress(Row.AnalyzerID) # NoHost
                      /\ Row.Command \notin {"ON", "OFF", "TOGGLE"})
             => FailedAtOnce(<<"unknown_command", Row.Command>>))
    /\ [][(ex'.id # ex.id /\ ex'.id # 0
              /\ (IPAddress(cmds[ex'.id].AnalyzerID) = NoHost
                   \/ cmds[ex'.id].Command \notin {"ON", "OFF", "TOGGLE"}))
            => (ex'.done /\ phys' = phys)]_vars

C26_Witness ==
    /\ Finished /\ ex.id = 2 /\ Row.Command = "RESET" /\ Row.ExecutionResult = "FAILED"
    /\ Row.ErrorMessage = <<"unknown_command", "RESET">>
    /\ cmds[1].AnalyzerID = 3 /\ cmds[1].ExecutionResult = "FAILED"
    /\ cmds[1].ErrorMessage = <<"missing_analyzer_ip">> /\ cmds[1].IoCycles = 0

\* C27: once an execution has resolved the desired state, it is ON for the
\* command ON and OFF for the command OFF; for TOGGLE it is ON when the
\* device+coil has no status row, the negation of the cached state when
\* the status query was answered (no store call has failed), and otherwise
\* the negation of the cached state or ON.
C27_DesiredState ==
    /\ (ex.id # 0 /\ ex.desired # None)
          => /\ ex.command \in {"ON", "OFF", "TOGGLE"}
             /\ ex.command = "ON" => ex.desired = 1
             /\ ex.command = "OFF" => ex.desired = 0
             /\ (ex.command = "TOGGLE" /\ ex.cached = None) => ex.desired = 1
             /\ (ex.command = "TOGGLE" /\ ex.cached # None)
                  => /\ ex.desired \in {1 - ex.cached, 1}
                     /\ dbFails = 0 => ex.desired = 1 - ex.cached
    /\ (ex.id # 0 /\ (ex.attempt >= 1 \/ ex.skipped)) => ex.desired # None

C27_Witness ==
    /\ Finished /\ ex.command = "TOGGLE" /\ ex.cached = 1 /\ ex.desired = 0
    /\ ex.wacks = 1 /\ ex.read_back_state = 0 /\ Row.ExecutionResult = "SUCCESS"

\* Outcomes of a device operation other than a response without error flag.
NoAnswer == {"error", "connect_failed", "raise", "none"}

\* C28: a device response that is absent or carries the error flag is never
\* taken for success. A primary write so answered is reported as failed and
\* no write is counted as acknowledged; a fallback write so answered leaves
\* the command's write unsuccessful; a read so answered yields no value, so
\* that the read-back state has a value only when some read returned one.
C28_ErrorIsNotSuccess ==
    /\ ex.out \in NoAnswer => (ex.wacks = 0 /\ (ex.success => ex.fout = "ack"))
    /\ ex.fout \in NoAnswer => (ex.facks = 0 /\ ~ex.success)
    /\ (ex.rout # <<>> /\ \A k \in 1..Len(ex.rout) : ex.rout[k] \in NoAnswer)
          => ex.read_back_state = None
    /\ Finished /\ ~ex.skipped /\ DeviceAcks = 0 /\ ~TestShortcut(ex.host)
          => ~Issued("SUCCESS")

C28_Witness ==
    /\ Finished /\ ex.writes = 3 /\ ex.out = "error" /\ ex.fout = "ack"
    /\ ex.rout = <<"none", "none">> /\ ex.read_back_state = None
    /\ ex.stored /\ Row.ExecutionResult = "FAILED"

\* The result columns of row i differ between the two states of a step.
ResultChanged(i) ==
    \/ cmds'[i].ExecutionResult # cmds[i].ExecutionResult
    \/ cmds'[i].ErrorMessage # cmds[i].ErrorMessage

\* The positions of the worker inside _execute_command and the loop of
\* process_pending_commands around it.
EnginePositions == {"exec", "write", "fallback", "readback", "final"}

\* C29: a step that inserts into the command table (an enqueue endpoint or
\* the enforcement loop) appends exactly one PENDING row, performs no device
\* operation, leaves the status cache, the execution in progress and every
\* existing row as they are; the result of a row changes only in a step of
\* the execution engine, which writes the result it issued to the head of
\* its batch; and outside the engine's positions no step touches a device.
C29_OnlyEngineWritesResults ==
    [][/\ Len(cmds') # Len(cmds)
          => /\ Len(cmds') = Len(cmds) + 1
             /\ SubSeq(cmds', 1, Len(cmds)) = cmds
             /\ cmds'[Len(cmds')].ExecutionResult = "PENDING"
             /\ cmds'[Len(cmds')].ErrorMessage = <<>>
             /\ cmds'[Len(cmds')].IoCycles = 0
             /\ pc \notin EnginePositions
             /\ phys' = phys /\ cache' = cache /\ ex' = ex /\ batch' = batch
       /\ \A i \in 1..Len(cmds) :
            ResultChanged(i)
              => /\ pc \in {"exec", "final"} /\ i = Head(batch) /\ ex'.id = i
                 /\ cmds[i].ExecutionResult = "PENDING"
                 /\ ex'.issued = <<cmds'[i].ExecutionResult, cmds'[i].ErrorMessage>>
       /\ pc \notin EnginePositions => (phys' = phys /\ cache' = cache)]_vars

\* The enforcement loop has inserted an OFF command behind a manual command
\* that the engine had marked FAILED, and the mark stands.
C29_Witness ==
    /\ Len(cmds) = 2 /\ cmds[1].Source = "manual" /\ cmds[1].ExecutionResult = "FAILED"
    /\ cmds[1].ErrorMessage = <<"readback_mismatch">>
    /\ cmds[2].Source = "auto_limit" /\ cmds[2].ExecutionResult = "PENDING"
    /\ pc \in {"enforce_each", "dispatch"} /\ ex = NoEx

\* The worker goes to sleep at the end of a dispatch cycle.
SleepStep == pc = "sleep" /\ pc' = "enforce"

\* An execution returns to the loop of process_pending_commands.
ReturnStep == ex'.id # 0 /\ ex'.done /\ ex' # ex

\* C30 as stated: after a dispatch cycle that fetched a non-empty batch (one
\* in which a command was executed) the worker sleeps 1 second, after any
\* other cycle the poll interval.
C30_SleepByBatch ==
    [][SleepStep => cmds' = Elapse(cmds, IF ex.id # 0 THEN 1 ELSE PollInterval)]_vars

\* C30, amended: the worker sleeps 1 second after a cycle in which at least
\* one command was executed without raising an unexpected error, and the
\* poll interval after a cycle that found no PENDING command, whose fetch
\* failed, or in which every command of the batch raised. count is the
\* number of commands of the cycle executed without raising.
C30_SleepByProcessed ==
    /\ [][/\ SleepStep => cmds' = Elapse(cmds, IF count > 0 THEN 1 ELSE PollInterval)
          /\ (pc = "dispatch" /\ pc' # "dispatch") => count' = 0
          /\ ReturnStep => count' = count + (IF ex'.raised THEN 0 ELSE 1)
          /\ (pc \in EnginePositions /\ ~ReturnStep) => count' = count]_vars
    /\ []((pc = "sleep" /\ ex.id = 0) => count = 0)
    /\ []((pc = "sleep" /\ ex.id # 0 /\ ~ex.raised) => count > 0)

\* The one command of a batch has raised, and the worker is about to sleep
\* the poll interval while the command is within the duplicate window.
C30_Witness ==
    /\ pc = "sleep" /\ Finished /\ ex.raised /\ count = 0 /\ Row.Recent
    /\ Len(cmds) = 1

\* C31: with DRY_RUN enabled the worker stays in its wait loop, whose next
\* wait is always possible; no step touches a device, a status-cache entry,
\* the result of a command or the execution record, and every command in
\* the table is PENDING and was never executed.
C31_DryRunIdle ==
    /\ [](env.DRY_RUN
            => /\ pc = "dry" /\ ENABLED DrySleep
               /\ ex = NoEx /\ batch = <<>>
               /\ \A i \in 1..Len(cmds) :
                    cmds[i].ExecutionResult = "PENDING" /\ cmds[i].IoCycles = 0)
    /\ [][env.DRY_RUN
            => /\ phys' = phys /\ cache' = cache /\ ex' = ex /\ pc' = pc
               /\ \A i \in 1..Len(cmds) : ~ResultChanged(i)]_vars

\* In dry-run mode two commands have been enqueued for the field device and
\* a wait of the loop has passed over them.
C31_Witness ==
    /\ env.DRY_RUN /\ pc = "dry" /\ Len(cmds) = 2
    /\ \A i \in 1..2 : /\ cmds[i].AnalyzerID = 1 /\ ~cmds[i].Recent
                         /\ cmds[i].ExecutionResult = "PENDING"

\* The residue of x modulo 256 by its definition: the r in 0..255 for which
\* x - r is a multiple of 256.
Residue256(x) == CHOOSE r \in 0..255 : \E k \in (0 - 257)..257 : x = (256 * k) + r

\* C32: for every output id and action handed to encode_do_value, the word
\* returned lies in 0..65535, its high byte is the output id modulo 256 and
\* its low byte the action modulo 256.
C32_EncodedWord ==
    resp.call = "encode_do_value"
        => /\ resp.word \in 0..65535
           /\ resp.word \div 256 = Residue256(resp.output_id)
           /\ resp.word % 256 = Residue256(resp.action)

C32_Witness ==
    /\ resp.call = "encode_do_value" /\ resp.output_id = 0 - 1 /\ resp.action = 257
    /\ resp.word = 65281

\* The execution has left the retry loop of a command with host and known
\* word that was not skipped.
LoopDone == ex.id # 0 /\ ex.attempt >= 1 /\ pc # "write" /\ (ex.done \/ pc # "exec")

\* Primary write attempts of the execution that failed.
FailedAttempts == ex.writes - ex.wacks

\* C33 as stated: an execution with k failed primary attempts incurs
\* min(k, max_retries - 1) retry delays.
C33_DelayCount ==
    LoopDone => ex.sleeps = Min(FailedAttempts, ex.max_retries - 1)

\* C33, amended: every retry delay is the fixed RETRY_DELAY_SECONDS (1 s);
\* one delay lies between two consecutive primary attempts, so that an
\* attempt is preceded by as many delays as attempts; no delay follows an
\* acknowledged attempt or the last allowed attempt; an execution with k
\* failed primary attempts incurs min(k, max_retries - 1) delays when
\* max_retries >= 1 and none otherwise.
C33_FixedDelayBetweenAttempts ==
    /\ Len(ex.delays) = ex.sleeps
    /\ \A i \in 1..Len(ex.delays) : ex.delays[i] = 1
    /\ (ex.id # 0 /\ pc = "write") => ex.sleeps = ex.writes
    /\ ex.wacks = 1 => ex.sleeps = ex.writes - 1
    /\ LoopDone => ex.sleeps = Max(0, Min(FailedAttempts, ex.max_retries - 1))

\* Three primary attempts have failed with a delay after the first and the
\* second only.
C33_Witness ==
    /\ LoopDone /\ ex.max_retries = 3 /\ ex.writes = 3 /\ ex.wacks = 0
    /\ ex.delays = <<1, 1>> /\ pc = "fallback"

\* The worker is about to execute an OFF command of the enforcement loop
\* for the breaker of the field device, the account being at 100 percent.
AutoOffAtHead ==
    /\ pc = "exec" /\ batch # <<>> /\ pct_of(alloc, used) >= 100
    /\ cmds[Head(batch)].AnalyzerID = 1 /\ cmds[Head(batch)].Command = "OFF"
    /\ cmds[Head(batch)].Source = "auto_limit" /\ ~env.UNIT_TEST

\* The device has not been reachable in the execution on record: some write
\* or read was not answered with a value, or an acknowledged write has not
\* switched the output.
Unreachable ==
    /\ ex.id # 0
    /\ \/ ex.out \in NoAnswer \/ ex.fout \in NoAnswer
       \/ \E k \in 1..Len(ex.rout) : ex.rout[k] \in NoAnswer
       \/ DeviceAcks > 0 /\ phys[ex.analyzer_id] # ex.desired

\* C34 as stated: with the account at 100 percent, when the worker comes to
\* execute an OFF command of the enforcement loop and the device is
\* reachable from then on, the breaker is eventually OFF.
C34_BreakerEventuallyOff ==
    AutoOffAtHead ~> (phys[1] = 0 \/ Unreachable)

\* The results _execute_command issues on its seven paths: missing host,
\* unknown command, idempotent skip and success, read-back mismatch,
\* read-back missing, write failure.
PathResults ==
    {<<"FAILED", <<"missing_analyzer_ip">>>>, <<"FAILED", <<"unknown_command", "RESET">>>>,
     <<"SUCCESS", <<>>>>, <<"FAILED", <<"readback_mismatch">>>>,
     <<"FAILED", <<"readback_missing">>>>, <<"FAILED", <<"unknown_error">>>>}
    \cup {<<"FAILED", <<w, n>>>> : w \in {"attempt_failed", "attempt_error"}, n \in 1..3}

\* C35: an execution that has returned has issued exactly one result update
\* for its command and one in progress none; the update of an execution
\* that did not raise is the one of its path, and the FAILED unexpected
\* update of process_pending_commands is issued exactly when the execution
\* raised; the update is issued in the step in which the execution returns.
C35_OneUpdatePerExecution ==
    /\ [](Finished => ex.updates = 1 /\ ex.issued # <<>>)
    /\ []((ex.id # 0 /\ ~ex.done) => (ex.updates = 0 /\ ex.issued = <<>>))
    /\ [](Finished => (ex.raised <=> ex.issued = <<"FAILED", <<"unexpected">>>>))
    /\ []((Finished /\ ~ex.raised) => ex.issued \in PathResults)
    /\ [][((ex'.id = ex.id /\ ex'.updates # ex.updates)
              \/ (ex'.id # ex.id /\ ex'.updates # 0))
            => (ex'.done /\ ex'.updates = 1 /\ ex'.issued # <<>>)]_vars

\* Two commands of one batch have each had their one update: the first by
\* process_pending_commands after a raise, the second on the read-back
\* mismatch path.
C35_Witness ==
    /\ Finished /\ ex.id = 2 /\ ex.updates = 1 /\ ex.stored
    /\ ex.issued = <<"FAILED", <<"readback_mismatch">>>>
    /\ cmds[1].ErrorMessage = <<"unexpected">> /\ cmds[2].ErrorMessage = <<"readback_mismatch">>

\* PENDING rows the enforcement loop enqueued for analyzer a with the given
\* command (the coil of an analyzer is fixed).
PendingAuto(a, command) ==
    {i \in 1..Len(cmds) : /\ cmds[i].AnalyzerID = a /\ cmds[i].Command = command
                          /\ cmds[i].Source \in {"auto_limit", "auto_restore"}
                          /\ cmds[i].ExecutionResult = "PENDING"}

\* C36 as stated: at any time the table holds at most one PENDING command
\* of the enforcement loop for a device, coil and command.
C36_OnePendingAuto ==
    \A a \in Analyzers : \A command \in {"ON", "OFF"} :
        Cardinality(PendingAuto(a, command)) <= 1

\* The command just executed and the one executed before it in the same
\* dispatch cycle target the same device and coil: both were PENDING when
\* the cycle fetched its batch.
SameTargetPair ==
    /\ Finished /\ ex.prev # 0
    /\ cmds[ex.prev].AnalyzerID = ex.analyzer_id
    /\ cmds[ex.prev].CoilAddress = cmds[ex.id].CoilAddress

BothSuccess ==
    cmds[ex.prev].ExecutionResult = "SUCCESS" /\ cmds[ex.id].ExecutionResult = "SUCCESS"

\* C37 as stated: of two PENDING commands for the same device and coil the
\* one requested earlier is executed first, and when both completed with
\* SUCCESS the device and the status cache are in the state the later
\* command requested.
C37_LaterCommandWins ==
    SameTargetPair =>
        /\ ex.prev < ex.id
        /\ BothSuccess => (phys[ex.analyzer_id] = ex.desired /\ cache[ex.analyzer_id] = ex.desired)

VisitStep == pc = "enforce_each" /\ todo' # todo

\* The row _enqueue_do inserts for analyzer a in the running cycle.
EnforcedRow(a) ==
    InsertRow(a, Coil(a), EnforceCommand(AccountPct(a)), DEFAULT_MAX_RETRIES,
              EnforceSource(AccountPct(a)), EnforceReason(AccountPct(a)), FALSE)

\* C39: enqueueing by the enforcement loop fails open and is isolated: when
\* the duplicate query raises the command is still inserted, when the insert
\* raises the queue is unchanged, and in both cases the loop goes on with
\* the next device; when the analyzers query of one account raises, every
\* breaker-enabled device of the other accounts is still visited; and the
\* enforcement cycle is always followed by the dispatch cycle.
C39_EnqueueIsolated ==
    /\ [][VisitStep
            => /\ enf'.a = Head(todo)
               /\ todo' = Tail(todo)
               /\ pc' = IF Tail(todo) = <<>> THEN "dispatch" ELSE "enforce_each"
               /\ (~enf'.okCheck /\ enf'.okInsert /\ Room(cmds))
                  => cmds' = Append(cmds, EnforcedRow(Head(todo)))
               /\ ~enf'.okInsert => cmds' = cmds]_vars
    /\ [][(pc = "enforce" /\ pc' # "enforce" /\ enf'.users)
            => \A u \in 0..Len(others) :
                  enf'.aids[u + 1]
                  => \A k \in 1..Len(AccountAnalyzers(u)) :
                        BreakerEnabled(AccountAnalyzers(u)[k])
                        => \E j \in 1..Len(todo') : todo'[j] = AccountAnalyzers(u)[k]]_vars
    /\ (pc \in {"enforce", "enforce_each"}) ~> (pc \in {"exec", "sleep"})

\* The insert for device 6 raised; device 7 of the same account and device 1
\* of the other account have their commands and the dispatch cycle is next.
C39_Witness ==
    /\ pc = "dispatch" /\ dbFails = 1 /\ enf.users /\ enf.aids = <<TRUE, TRUE>>
    /\ enf.a = 7 /\ enf.okCheck /\ enf.okInsert
    /\ Len(cmds) = 2 /\ cmds[1].AnalyzerID = 1 /\ cmds[2].AnalyzerID = 7
    /\ cmds[2].ExecutionResult = "PENDING"

\* The loop visits a device of the further account and that account has no
\* positive allocation.
UnallocatedVisit ==
    /\ VisitStep /\ Head(todo) \in {6, 7}
    /\ others[1].AllocatedKWh <= 0

\* The PENDING row for analyzer a that cuts the supply (used > 0) or restores
\* it (used = 0).
UnallocatedRow(a, us) ==
    IF us > 0
    THEN InsertRow(a, 0, "OFF", 3, "auto_limit", "Units exceeded 100%", FALSE)
    ELSE InsertRow(a, 0, "ON", 3, "auto_restore", "Recharge completed", FALSE)

====
